---- MODULE Spec2Model ----
(***************************************************************************)
(* Glyph miner: the claim coordinator (Blockchain.found / submit /         *)
(* claimTokens), the contract subscription handler installed by            *)
(* changeToken, and the GPU search loop of miner.ts, together with the     *)
(* chain gateway they talk to.                                             *)
(*                                                                         *)
(* Every await of the TypeScript code is a point where the handler is      *)
(* parked in a variable (inflight, handlers, loads, loops, waiters) and a  *)
(* later action runs its continuation.  A gateway request is answered      *)
(* from the server's state at the moment its continuation runs.            *)
(*                                                                         *)
(* Amounts are in units of one claim fee; the single photon carried by     *)
(* the contract output is below that resolution and left out.              *)
(***************************************************************************)
EXTENDS Integers, Sequences, FiniteSets, TLC

\* ---------------------------------------------------------------- bounds
MaxHeight == 2      \* maxHeight of the mined contract
MaxFound == 3       \* candidates the search loop may forward
MaxMints == 1       \* mints by other miners
MaxLoads == 2       \* changeToken calls
MaxStarts == 2      \* presses of the start button
MaxRedeliver == 1   \* statuses the server announces a second time
MaxHandlers == 2    \* subscription callbacks parked on a fetch
MaxLoops == 2       \* search loops alive at once
InitBalance == 4    \* wallet funding, in fee units
MaxAlgoId == 5      \* algorithm ids 0 .. 5 (the registry has 0 .. 4)
ByteBase == 2       \* values of a byte (256 in the program)
WordBytes == 2      \* bytes in a u32 word (4 in the program)
HashWords == 4      \* words in a hash (8 in the program)
MaxWorkTarget == 20 \* contract targets 1 .. 20; 64 bits hold 0 .. 15 here
EpochLength == 2       \* blocks in an epoch (2016 by default)
TargetBlockTime == 60  \* seconds
MaxAdjustment == 4
HalfLife == 100        \* blocks (1000 by default)
MaxDifficulty == 12    \* current difficulty handed to the Epoch calculator
MaxHistory == 4        \* solve times in an LWMA history
MaxScheduleHeight == 3      \* heights of schedule entries
MaxScheduleDifficulty == 3  \* difficulties of schedule entries
NumberUnit == 2             \* parts of 1 a number is counted in
WindowSize == 5        \* blocks in the LWMA window (144 by default)
maxHistorySize == 1000
MaxBlocks == 5         \* blocks fed to a manager
SteadyBlocks == 997    \* blocks on schedule that a long-lived manager saw
LateBlocks == 6        \* blocks fed to it after those
PRECISION == 1000000
RBITS == 16
ln2Scaled == 45426
NonceSpace == 8     \* values of a u32 nonce half (2^32 in the program)
MaxInvocations == 3 \* invocations of one dispatch (workgroups * 256)
MaxServers == 3     \* servers in the list
MaxSockets == 4     \* connections opened in one run
MaxTime == 150000   \* milliseconds a run lasts
Tick == 10000       \* milliseconds between two looks at the clock
MaxEvents == 3      \* loads, starts, foreign mints and repeated statuses
                    \* taken together in one run; the device reports
                    \* candidates until the last of them

Refs == {"A", "B"}
Nonces == 0 .. 2
MsgTypes == {"accept", "reject", "found", "low-balance", "general", "stop",
             "start", "new-location", "minted-out", "loaded", "not-found"}

VARIABLES
  \* chain gateway (server side)
  chain,              \* per contract, the transactions that carried it
  srvUnspent,         \* unspent outputs of the wallet address
  subQueue,           \* status notifications on their way to the client
  subscribed,         \* script hashes with a registered callback
  \* signals
  contract, glyph, miningStatus, miningEnabled, balance, utxos,
  accepted, rejected, found, messages,
  \* Blockchain object
  nonces, ready, subscriptionStatus,
  \* parked continuations
  inflight,           \* claimTokens calls awaiting broadcast
  handlers,           \* subscription callbacks awaiting fetchRef / fetchTx
  loads,              \* changeToken calls awaiting fetchToken
  loops,              \* the search loops of miner.start
  waiters,            \* stopMining calls awaiting miner.stop
  \* history
  hist,
  \* a library function being applied: its name, arguments and result
  call,
  \* the module variables of client.tsx, its sockets and its timers
  net

minerVars == <<chain, srvUnspent, subQueue, subscribed, contract,
               glyph, miningStatus, miningEnabled, balance, utxos, accepted,
               rejected, found, messages, nonces, ready, subscriptionStatus,
               inflight, handlers, loads, loops, waiters, hist>>

vars == <<minerVars, call, net>>

srvVars == <<chain, srvUnspent, subQueue, subscribed>>

\* ------------------------------------------------------------ plain data
NoTxid == [ref |-> "none", by |-> "none", h |-> 0]
NoContract == [contractRef |-> "none", location |-> NoTxid, outputIndex |-> 0,
               height |-> 0, maxHeight |-> 0, reward |-> 0, target |-> 0]
NoCall == [fn |-> "none"]
NoClient == [servers |-> 0]
NoStatus == [ref |-> "none", n |-> 0]
NoWork == [txid |-> NoTxid, contractRef |-> "none", target |-> 0,
           algorithm |-> "none"]

Reward == 1
\* smallest units in one coin (100000000 in utils.ts, scaled down so that one
\* claim fee is 0.01 coin)
Coin == 100
Target == 1
FEE_PER_KB == 1

RECURSIVE SumValues(_)
SumValues(us) == IF us = <<>> THEN 0 ELSE Head(us).value + SumValues(Tail(us))

Front(s) == SubSeq(s, 1, Len(s) - 1)
Last(s) == s[Len(s)]
RemoveAt(s, i) == SubSeq(s, 1, i - 1) \o SubSeq(s, i + 1, Len(s))

addMessage(ms, t) == [ms EXCEPT ![t] = @ + 1]

\* ------------------------------------------------------- refs and scripts
\* Contract A is the singleton at output 1 of its deployment, B at output 10.
RefVout(ref) == IF ref = "A" THEN 1 ELSE 10

\* The eight hex digits of the little-endian output index that ends a ref.
VoutHexLE(v) ==
  <<(v % 256) \div 16, v % 16, ((v \div 256) % 256) \div 16, (v \div 256) % 16,
    0, 0, 0, 0>>

PlainScript(k, t) == [kind |-> k, ref |-> "none", vout |-> VoutHexLE(0),
                      height |-> 0, maxHeight |-> 0, reward |-> 0,
                      target |-> 0, text |-> t]

burnScript(ref) == [PlainScript("burn", "") EXCEPT
                      !.ref = ref, !.vout = VoutHexLE(RefVout(ref))]

dMintScript(c) == [PlainScript("dmint", "") EXCEPT
                     !.ref = c.contractRef,
                     !.vout = VoutHexLE(RefVout(c.contractRef)),
                     !.height = c.height, !.maxHeight = c.maxHeight,
                     !.reward = c.reward, !.target = c.target]

mintMessageScript == PlainScript("msg", "gm")

ftScript == PlainScript("ft", "")

p2pkhScript == PlainScript("p2pkh", "")

\* /^(.*)bd5175...$/ : the state prologue of a dMint output
parseDmintScript(s) == s.kind = "dmint"

\* /^d8([0-9a-f]{64}[0-9]{8})6a$/ : the last eight characters must be
\* decimal digits
parseBurnScript(s) ==
  IF s.kind = "burn" /\ \A i \in 1 .. 8 : s.vout[i] <= 9 THEN s.ref ELSE "none"

parseMessageScript(s) == IF s.kind = "msg" THEN s.text ELSE ""

\* ------------------------------------------------------------ hash model
\* SHA-256d / BLAKE3 are stood in for by a fixed function of the preimage
\* (location, ref) and the nonce; each preimage has one nonce below target.
TxNum(t) == IF t.h % 2 = 0 THEN 0 ELSE IF t.by = "me" THEN 1 ELSE 2
RefNum(r) == IF r = "A" THEN 0 ELSE 1
HashOf(algorithm, pre, nonce) ==
  LET x == (TxNum(pre.txid) + RefNum(pre.contractRef) + nonce
            + (IF algorithm = "sha256d" THEN 0 ELSE 1)) % 3
  IN [zero4 |-> x < 2, num |-> x]

powPreimage(w) == [txid |-> w.txid, contractRef |-> w.contractRef]

verify(target, partialPreimage, nonce) ==
  LET hash == HashOf("sha256d", partialPreimage, nonce)
  IN IF ~hash.zero4 THEN FALSE ELSE hash.num < target

\* The predicate the contract script enforces for its algorithm.
PowValid(algorithm, target, pre, nonce) ==
  LET hash == HashOf(algorithm, pre, nonce)
  IN hash.zero4 /\ hash.num < target

\* ------------------------------------------------------------- algorithms
mapAlgorithmId(algoId) ==
  CASE algoId = 0 -> "sha256d"
    [] algoId = 1 -> "blake3"
    [] algoId = 2 -> "k12"
    [] algoId = 3 -> "argon2light"
    [] algoId = 4 -> "randomx-light"
    [] OTHER -> "sha256d"

\* Values of payload.dmint.algo: a number, a string of digits, or absent.
NumberAlgo(n) == [t |-> "number", v |-> n]
StringAlgo(n) == [t |-> "string", v |-> n]
NoAlgo == [t |-> "undefined", v |-> 0]
NoAlgorithm == "none"

\* getAlgorithm on a payload's dmint.algo and the contract's algorithm field
selectAlgorithm(algo, contractAlgorithm) ==
  IF algo.t = "number" THEN mapAlgorithmId(algo.v)
  ELSE IF contractAlgorithm # NoAlgorithm THEN contractAlgorithm
  ELSE "sha256d"

\* The glyph payload comes with the reveal transaction; A is a v1 glyph
\* without dmint.algo. fetchToken never sets the contract's algorithm field.
getAlgorithm(g) ==
  selectAlgorithm(IF g \in Refs THEN chain[g][1].algo ELSE NoAlgo, NoAlgorithm)

isAlgorithmSupported(id) == id \in {"sha256d", "blake3", "k12", "argon2light"}

isV2ShaderLayout(algorithm) == algorithm \in {"blake3", "k12"}

createWork(c, g) ==
  IF c.contractRef = "none" THEN NoWork
  ELSE [txid |-> c.location, contractRef |-> c.contractRef, target |-> c.target,
        algorithm |-> getAlgorithm(g)]

work == createWork(contract, glyph)

\* ------------------------------------------------------ contract parsing
Output(script, satoshis) == [script |-> script, satoshis |-> satoshis]

NoParse == [state |-> "none", params |-> NoContract, message |-> ""]

parseContractTx(tx, ref) ==
  LET n == Len(tx.outputs)
      hex(i) == tx.outputs[i].script
      stateScripts == {i \in 1 .. n : parseDmintScript(hex(i))}
      burns == {i \in 1 .. n : ~parseDmintScript(hex(i))
                                /\ parseBurnScript(hex(i)) = ref}
      msgs == {i \in 1 .. n : ~parseDmintScript(hex(i))
                               /\ parseBurnScript(hex(i)) = "none"
                               /\ parseMessageScript(hex(i)) # ""}
      message == IF msgs = {} THEN ""
                 ELSE parseMessageScript(hex(CHOOSE i \in msgs :
                                                \A j \in msgs : i <= j))
      contracts == {i \in stateScripts : hex(i).ref = ref}
      first == CHOOSE i \in contracts : \A j \in contracts : i <= j
  IN IF contracts = {}
     THEN IF burns # {}
          THEN [state |-> "burn", params |-> NoContract, message |-> message]
          ELSE NoParse
     ELSE [state |-> "active",
           params |-> [contractRef |-> ref, location |-> tx.id,
                       outputIndex |-> first - 1, height |-> hex(first).height,
                       maxHeight |-> hex(first).maxHeight,
                       reward |-> hex(first).reward,
                       target |-> hex(first).target],
           message |-> message]

\* ------------------------------------------------------------ the gateway
StatusOf(ref) == [ref |-> ref, n |-> Len(chain[ref])]

fetchRef(ref) == <<chain[ref][1].id, Last(chain[ref]).id>>

fetchTx(txid) == chain[txid.ref][txid.h + 1]

RevealWith(ref, algo, target) ==
  [id |-> [ref |-> ref, by |-> "deploy", h |-> 0], algo |-> algo,
   outputs |-> <<Output(dMintScript([NoContract EXCEPT
                     !.contractRef = ref, !.maxHeight = MaxHeight,
                     !.reward = Reward, !.target = target]), 1)>>]

RevealTx(ref, algo) == RevealWith(ref, algo, Target)

\* fetchToken: reveal transaction, current location, glyph
fetchToken(ref) ==
  LET ids == fetchRef(ref)
      revealParams == parseContractTx(fetchTx(ids[1]), ref)
      locParams == IF ids[1] = ids[2] THEN revealParams
                   ELSE parseContractTx(fetchTx(ids[2]), ref)
  IN IF revealParams.state # "active" \/ locParams.state = "none"
     THEN NoContract
     ELSE IF locParams.state = "burn"
          THEN [revealParams.params EXCEPT !.height = revealParams.params.maxHeight]
          ELSE locParams.params

\* Script validity as the chain enforces it on a spend of the contract.
ChainAccepts(tx) ==
  LET tip == Last(chain[tx.input.ref])
      cur == parseContractTx(tip, tx.input.ref)
      next == [cur.params EXCEPT !.height = @ + 1]
      funds == {tx.funding[i] : i \in 1 .. Len(tx.funding)}
  IN /\ tx.input = tip.id
     /\ cur.state = "active"
     /\ tx.inputIndex = cur.params.outputIndex
     /\ tx.outputs[1].script = (IF next.height = next.maxHeight
                                THEN burnScript(tx.input.ref)
                                ELSE dMintScript(next))
     /\ PowValid(getAlgorithm(tx.input.ref), cur.params.target,
                 [txid |-> tip.id, contractRef |-> tx.input.ref], tx.nonce)
     /\ funds \subseteq srvUnspent
     /\ SumValues(tx.funding) >= cur.params.reward + FEE_PER_KB

LoopIds == 1 .. MaxLoops
NoLoop == [pc |-> "off", work |-> NoWork, midstate |-> powPreimage(NoWork)]

\* -------------------------------------------------------------------- Init
Funding(b) == [tx |-> [ref |-> "none", by |-> "fund", h |-> 0], pos |-> 0,
               value |-> b]

InitOf(b, algoB, targetB) ==
  /\ net = NoClient
  /\ chain = [r \in Refs |-> <<IF r = "B" THEN RevealWith(r, algoB, targetB)
                                ELSE RevealTx(r, NoAlgo)>>]
  /\ srvUnspent = {Funding(b)}
  /\ subQueue = <<>>
  /\ subscribed = {}
  /\ contract = NoContract
  /\ glyph = "none"
  /\ miningStatus = "ready"
  /\ miningEnabled = FALSE
  /\ balance = b
  /\ utxos = <<Funding(b)>>
  /\ accepted = 0
  /\ rejected = 0
  /\ found = 0
  /\ messages = [t \in MsgTypes |-> 0]
  /\ nonces = <<>>
  /\ ready = TRUE
  /\ subscriptionStatus = NoStatus
  /\ inflight = <<>>
  /\ handlers = <<>>
  /\ loads = <<>>
  /\ loops = [l \in LoopIds |-> NoLoop]
  /\ waiters = 0
  /\ hist = [loads |-> 0, starts |-> 0, mints |-> 0, redelivered |-> 0,
             unverified |-> 0, submits |-> 0, replies |-> 0, maxK |-> 0,
             stopReq |-> FALSE, reloaded |-> {}, dup |-> FALSE,
             halted |-> FALSE, conflicts |-> 0]

InitWith(b, algoB) == InitOf(b, algoB, Target)

\* B is a v2 glyph with dmint.algo = 1 (BLAKE3)
Idle == InitWith(InitBalance, NumberAlgo(1))

Init == Idle /\ call = NoCall

LoopRunning == \E l \in LoopIds : loops[l].pc # "off"

\* History: a stop was requested of a running loop (status2 is the status
\* the step leaves behind).
StopRequested(h, status2) ==
  IF status2 = "stop" /\ LoopRunning THEN [h EXCEPT !.stopReq = TRUE] ELSE h

\* Inputs from the user and the network taken so far.
Events == hist.loads + hist.starts + hist.mints + hist.redelivered

\* ------------------------------------------------------- claim coordinator
\* claimTokens up to the await of broadcast: the transaction it sends
claimTokens(c, w, nonce) ==
  LET newHeight == c.height + 1
      lastMint == newHeight = c.maxHeight
      changeAmount == SumValues(utxos) - c.reward - FEE_PER_KB
      out0 == IF lastMint THEN Output(burnScript(c.contractRef), 0)
              ELSE Output(dMintScript([c EXCEPT !.height = c.height + 1]), 1)
  IN [input |-> c.location, inputIndex |-> c.outputIndex, nonce |-> nonce.n,
      k |-> nonce.k, funding |-> utxos,
      outputs |-> <<out0, Output(ftScript, c.reward),
                    Output(mintMessageScript, 0)>>
                  \o (IF changeAmount >= 1
                      THEN <<Output(p2pkhScript, changeAmount)>> ELSE <<>>)]

\* submit that takes the guard and pops the nonce but never broadcasts it
submitNoBroadcast(ns, rdy, infl) ==
  IF ns = <<>> THEN [nonces |-> ns, ready |-> rdy, inflight |-> infl]
  ELSE [nonces |-> Front(ns), ready |-> FALSE, inflight |-> infl]

\* submit that takes the oldest buffered nonce instead of the newest
submitOldest(ns, rdy, infl) ==
  IF ns = <<>> THEN [nonces |-> ns, ready |-> rdy, inflight |-> infl]
  ELSE IF contract = NoContract \/ work = NoWork
       THEN [nonces |-> Tail(ns), ready |-> rdy, inflight |-> infl]
       ELSE [nonces |-> Tail(ns), ready |-> FALSE,
             inflight |-> Append(infl, claimTokens(contract, work, Head(ns)))]

\* Blockchain.submit up to its await: pops the newest nonce and, unless
\* there is nothing to claim with, takes the guard and starts a broadcast.
submit(ns, rdy, infl) ==
  IF ns = <<>> THEN [nonces |-> ns, ready |-> rdy, inflight |-> infl]
  ELSE IF contract = NoContract \/ work = NoWork
       THEN [nonces |-> Front(ns), ready |-> rdy, inflight |-> infl]
       ELSE [nonces |-> Front(ns), ready |-> FALSE,
             inflight |-> Append(infl, claimTokens(contract, work, Last(ns)))]

\* found without the test of the ready flag
foundUnguarded(values, ns, rdy, infl) == submit(ns \o values, rdy, infl)

\* Blockchain.found
foundValues(values, ns, rdy, infl) ==
  IF rdy THEN submit(ns \o values, rdy, infl)
  ELSE [nonces |-> ns \o values, ready |-> rdy, inflight |-> infl]

\* foundNonce, as the search loop calls it: the nonce goes through the nonces
\* signal, whose effect hands it to Blockchain.found at once.
foundNonce(nonce, ns, rdy, infl) == foundValues(<<nonce>>, ns, rdy, infl)

lowBalance(b) == b * 10000 < 1

\* miner.stop up to the promise it returns
stop(status) == IF status # "ready" THEN "stop" ELSE status

Notify(ref, q) == IF ref \in subscribed
                  THEN Append(q, [ref |-> ref, n |-> Len(chain[ref]) + 1])
                  ELSE q

HistSubmit(h, before, after) ==
  IF Len(after) > Len(before)
  THEN [h EXCEPT !.submits = @ + 1,
                 !.maxK = IF Last(after).k > @ THEN Last(after).k ELSE @]
  ELSE h

\* The gateway refuses tx with txn-mempool-conflict: the contract output it
\* spends is already spent by another claim.
MempoolConflict(tx) ==
  \E j \in 1 .. Len(chain[tx.input.ref]) - 1 : chain[tx.input.ref][j].id = tx.input

\* The broadcast of inflight[i] is accepted: claimTokens records the change
\* output and returns the txid, submit runs its accept branch.
SubmitAccepted(i) ==
  LET tx == inflight[i]
      ref == tx.input.ref
      txid == [ref |-> ref, by |-> "me", h |-> Len(chain[ref])]
      changeOutputIndex == Len(tx.outputs) - 1
      newBalance == tx.outputs[changeOutputIndex + 1].satoshis
      funds == {tx.funding[j] : j \in 1 .. Len(tx.funding)}
      change == IF tx.outputs[changeOutputIndex + 1].script.kind = "p2pkh"
                THEN {[tx |-> txid, pos |-> changeOutputIndex,
                       value |-> newBalance]}
                ELSE {}
      height == contract.height + 1
      status1 == IF height = contract.maxHeight THEN "stop" ELSE "change"
      low == lowBalance(newBalance)
  IN /\ i \in 1 .. Len(inflight)
     /\ ChainAccepts(tx)
     /\ chain' = [chain EXCEPT ![ref] = Append(@, [id |-> txid,
                                                   outputs |-> tx.outputs])]
     /\ srvUnspent' = (srvUnspent \ funds) \cup change
     /\ subQueue' = Notify(ref, subQueue)
     /\ utxos' = <<[tx |-> txid, pos |-> changeOutputIndex,
                    value |-> newBalance]>>
     /\ balance' = newBalance
     /\ accepted' = accepted + 1
     /\ nonces' = <<>>
     /\ ready' = TRUE
     /\ inflight' = RemoveAt(inflight, i)
     /\ contract' = IF height = contract.maxHeight THEN contract
                    ELSE [contract EXCEPT !.height = height,
                                          !.location = txid,
                                          !.outputIndex = 0]
     /\ miningStatus' = IF low THEN stop(status1) ELSE status1
     /\ messages' = LET m1 == addMessage(messages, "accept")
                    IN IF low THEN addMessage(addMessage(m1, "low-balance"),
                                              "stop")
                       ELSE m1
     /\ hist' = StopRequested([hist EXCEPT !.replies = @ + 1,
                                           !.halted = @ \/ low,
                                           !.conflicts = 0],
                              IF low THEN stop(status1) ELSE status1)
     /\ UNCHANGED <<call, net, subscribed, glyph, miningEnabled, rejected,
                    found, subscriptionStatus, handlers, loads, loops, waiters>>

\* The broadcast of inflight[i] fails: claimTokens returns false, submit
\* runs its reject branch and tries the next buffered nonce.
SubmitRejected(i) ==
  /\ i \in 1 .. Len(inflight)
  /\ LET rest == RemoveAt(inflight, i)
         r == IF Len(nonces) > 0 THEN submit(nonces, ready, rest)
              ELSE [nonces |-> nonces, ready |-> TRUE, inflight |-> rest]
     IN /\ nonces' = r.nonces
        /\ ready' = r.ready
        /\ inflight' = r.inflight
        /\ hist' = HistSubmit([hist EXCEPT
                                  !.replies = @ + 1,
                                  !.conflicts = IF MempoolConflict(inflight[i])
                                                THEN @ + 1 ELSE 0],
                               rest, r.inflight)
  /\ rejected' = rejected + 1
  /\ messages' = addMessage(messages, "reject")
  /\ UNCHANGED <<call, net, srvVars, contract, glyph, miningStatus, miningEnabled,
                 balance, utxos, accepted, found, subscriptionStatus,
                 handlers, loads, loops, waiters>>

\* ------------------------------------------------------------- search loop
\* balance.value > 0.01 + Number(contract.reward) / 100000000, the balance
\* signal holding the sum of the wallet's output values (smallest units)
canStart ==
  /\ contract # NoContract
  /\ contract.height < contract.maxHeight
  /\ balance * 100 * Coin > Coin + 100 * contract.reward

powMidstate(w) == powPreimage(w)

\* startMining, then miner.start up to its first await
Start(l) ==
  /\ ~miningEnabled
  /\ canStart
  /\ work # NoWork
  /\ hist.starts < MaxStarts
  /\ Events < MaxEvents
  /\ loops[l].pc = "off"
  \* a new loop takes the first free place
  /\ \A j \in LoopIds : j < l => loops[j].pc # "off"
  /\ messages' = addMessage(messages, "start")
  /\ miningEnabled' = TRUE
  /\ miningStatus' = "mining"
  /\ loops' = [loops EXCEPT ![l] = [pc |-> "init", work |-> work,
                                    midstate |-> powMidstate(work)]]
  /\ hist' = [hist EXCEPT !.starts = @ + 1, !.halted = FALSE]
  /\ UNCHANGED <<call, net, srvVars, contract, glyph, balance, utxos, accepted, rejected,
                 found, nonces, ready, subscriptionStatus, inflight, handlers,
                 loads, waiters>>

\* The loop condition: the next dispatch is queued, or the loop is left and
\* the status becomes ready.
LoopNext(lp, status) ==
  IF status \in {"mining", "change"}
  THEN [loop |-> [lp EXCEPT !.pc = "dispatch"], status |-> status]
  ELSE [loop |-> NoLoop, status |-> "ready"]

\* The device was acquired; pipeline and buffers are set up.
LoopEnter(l) ==
  /\ loops[l].pc = "init"
  /\ LET r == LoopNext(loops[l], miningStatus)
     IN /\ loops' = [loops EXCEPT ![l] = r.loop]
        /\ miningStatus' = r.status
        /\ hist' = IF r.loop = NoLoop THEN [hist EXCEPT !.stopReq = FALSE]
                   ELSE hist
  /\ UNCHANGED <<call, net, srvVars, contract, glyph, miningEnabled, balance, utxos,
                 accepted, rejected, found, messages, nonces, ready,
                 subscriptionStatus, inflight, handlers, loads, waiters>>

\* Whether the loop hands a device result to foundNonce.
forwards(lp, nonce) ==
  IF isV2ShaderLayout(lp.work.algorithm) THEN TRUE
  ELSE verify(lp.work.target, lp.midstate, nonce)

NoResult == 0 - 1

\* mapAsync resolved: read the result, forward it, take up a change of work.
DispatchDone(l, result) ==
  /\ loops[l].pc = "dispatch"
  /\ result # NoResult => found < MaxFound /\ Events < MaxEvents
  /\ LET lp == loops[l]
         fwd == result # NoResult /\ forwards(lp, result)
         r == IF fwd
              \* pre is history: the preimage the device searched
              THEN foundNonce([n |-> result, k |-> found + 1,
                               pre |-> lp.midstate], nonces, ready, inflight)
              ELSE [nonces |-> nonces, ready |-> ready, inflight |-> inflight]
         changing == miningStatus = "change"
         broke == changing /\ work = NoWork
         lp2 == IF changing /\ ~broke
                THEN [lp EXCEPT !.midstate = powMidstate(work)] ELSE lp
         \* updateWork stops for an unsupported algorithm and leaves the
         \* work signal alone; the loop then goes on and sets mining
         updated == IF changing /\ work # NoWork
                       /\ ~isAlgorithmSupported(work.algorithm)
                    THEN "stop" ELSE miningStatus
         status2 == IF changing /\ ~broke THEN "mining" ELSE updated
         nx == IF broke THEN [loop |-> NoLoop, status |-> "ready"]
               ELSE LoopNext(lp2, status2)
         m1 == IF fwd THEN addMessage(messages, "found") ELSE messages
     IN /\ nonces' = r.nonces
        /\ ready' = r.ready
        /\ inflight' = r.inflight
        /\ found' = IF fwd THEN found + 1 ELSE found
        \* updateWork: "Unsupported algorithm" or "Using ... algorithm"
        /\ messages' = IF changing /\ work # NoWork
                       THEN addMessage(m1, "general") ELSE m1
        /\ loops' = [loops EXCEPT ![l] = nx.loop]
        /\ miningStatus' = nx.status
        /\ hist' = LET h1 == HistSubmit(hist, inflight, r.inflight)
                       h2 == IF fwd /\ ~PowValid(lp.work.algorithm,
                                                 lp.work.target, lp.midstate,
                                                 result)
                             THEN [h1 EXCEPT !.unverified = @ + 1] ELSE h1
                   IN IF nx.loop = NoLoop THEN [h2 EXCEPT !.stopReq = FALSE]
                      ELSE h2
  /\ UNCHANGED <<call, net, srvVars, contract, glyph, miningEnabled, balance, utxos,
                 accepted, rejected, subscriptionStatus, handlers, loads,
                 waiters>>

\* stopMining up to its await of miner.stop
Stop ==
  /\ miningEnabled
  /\ miningEnabled' = FALSE
  /\ IF miningStatus \notin {"ready", "stop"}
     THEN /\ miningStatus' = stop(miningStatus)
          /\ waiters' = waiters + 1
          /\ hist' = StopRequested(hist, stop(miningStatus))
     ELSE UNCHANGED <<miningStatus, waiters, hist>>
  /\ UNCHANGED <<call, net, srvVars, contract, glyph, balance, utxos, accepted, rejected,
                 found, messages, nonces, ready, subscriptionStatus, inflight,
                 handlers, loads, loops>>

\* The poll of miner.stop saw ready; stopMining goes on.
StopResolved ==
  /\ waiters > 0
  /\ miningStatus = "ready"
  /\ waiters' = waiters - 1
  /\ messages' = addMessage(messages, "stop")
  /\ UNCHANGED <<call, net, srvVars, contract, glyph, miningStatus, miningEnabled, balance,
                 utxos, accepted, rejected, found, nonces, ready,
                 subscriptionStatus, inflight, handlers, loads, loops, hist>>

\* -------------------------------------------------- changeToken and handler
\* A token is picked: TokenList load calls changeToken directly, the form of
\* the miner page first announces and requests a stop.  changeToken runs up
\* to its await of fetchToken.
Pages == {"list", "miner"}

ChangeToken(ref, page) ==
  /\ hist.loads < MaxLoads
  /\ Events < MaxEvents
  /\ loads' = Append(loads, ref)
  /\ hist' = LET h1 == [hist EXCEPT !.loads = @ + 1]
             IN IF page = "miner" THEN StopRequested(h1, stop(miningStatus))
                ELSE h1
  /\ IF page = "miner"
     THEN /\ messages' = IF miningStatus # "ready"
                          THEN addMessage(messages, "stop") ELSE messages
          /\ miningStatus' = stop(miningStatus)
     ELSE UNCHANGED <<messages, miningStatus>>
  /\ UNCHANGED <<call, net, srvVars, contract, glyph, miningEnabled, balance,
                 utxos, accepted, rejected, found, nonces, ready,
                 subscriptionStatus, inflight, handlers, loops, waiters>>

\* fetchToken resolved: the token is installed and its singleton subscribed;
\* the subscription answers with the current status.
ChangeTokenLoaded(i) ==
  /\ i \in 1 .. Len(loads)
  /\ LET ref == loads[i]
         token == fetchToken(ref)
     IN /\ loads' = RemoveAt(loads, i)
        /\ IF token = NoContract
           THEN /\ messages' = addMessage(messages, "not-found")
                /\ UNCHANGED <<contract, glyph, subscribed, subQueue>>
           ELSE /\ contract' = token
                /\ glyph' = ref
                /\ IF token.height = token.maxHeight
                   THEN /\ messages' = addMessage(messages, "minted-out")
                        /\ UNCHANGED <<subscribed, subQueue>>
                   ELSE /\ messages' =
                             LET m1 == addMessage(messages, "loaded")
                             IN IF lowBalance(balance)
                                THEN addMessage(m1, "low-balance") ELSE m1
                        /\ subscribed' = subscribed \cup {ref}
                        /\ subQueue' = Append(subQueue, StatusOf(ref))
  /\ UNCHANGED <<call, net, chain, srvUnspent, miningStatus, miningEnabled,
                 balance, utxos, accepted, rejected, found, nonces, ready,
                 subscriptionStatus, inflight, handlers, loops, waiters, hist>>

\* The subscription callback is invoked with the next status on the wire.
StatusReceived ==
  /\ subQueue # <<>>
  /\ LET status == Head(subQueue)
     IN IF status # subscriptionStatus
        THEN /\ Len(handlers) < MaxHandlers
             /\ handlers' = Append(handlers, [ref |-> status.ref,
                                               status |-> status,
                                               pc |-> "fetchRef",
                                               location |-> NoTxid])
        ELSE UNCHANGED handlers
  /\ subQueue' = Tail(subQueue)
  /\ UNCHANGED <<call, net, chain, srvUnspent, subscribed, contract, glyph,
                 miningStatus, miningEnabled, balance, utxos, accepted,
                 rejected, found, messages, nonces, ready, subscriptionStatus,
                 inflight, loads, loops, waiters, hist>>

\* fetchRef resolved in the callback
HandlerFetchedRef(i) ==
  /\ i \in 1 .. Len(handlers)
  /\ handlers[i].pc = "fetchRef"
  /\ LET h == handlers[i]
         location == fetchRef(h.ref)[2]
     IN IF contract # NoContract /\ location # contract.location
        THEN /\ handlers' = [handlers EXCEPT ![i] =
                               [h EXCEPT !.pc = "fetchTx",
                                         !.location = location]]
             /\ UNCHANGED subscriptionStatus
        ELSE /\ handlers' = RemoveAt(handlers, i)
             /\ subscriptionStatus' = h.status
  /\ UNCHANGED <<call, net, srvVars, contract, glyph, miningStatus, miningEnabled, balance,
                 utxos, accepted, rejected, found, messages, nonces, ready,
                 inflight, loads, loops, waiters, hist>>

\* fetchTx resolved in the callback: the new location is parsed and taken.
HandlerFetchedTx(i) ==
  /\ i \in 1 .. Len(handlers)
  /\ handlers[i].pc = "fetchTx"
  /\ LET h == handlers[i]
         parsed == parseContractTx(fetchTx(h.location), h.ref)
         m1 == IF parsed.state # "none" /\ parsed.message # ""
               THEN addMessage(messages, "new-location") ELSE messages
     IN /\ handlers' = RemoveAt(handlers, i)
        /\ subscriptionStatus' = h.status
        /\ hist' = LET h1 == [hist EXCEPT
                                !.reloaded = @ \cup {h.status},
                                !.dup = @ \/ h.status \in hist.reloaded]
                   IN IF parsed.state = "burn"
                      THEN StopRequested([h1 EXCEPT !.halted = TRUE], "stop")
                      ELSE h1
        /\ CASE parsed.state = "active" ->
                  /\ contract' = parsed.params
                  /\ miningStatus' = IF miningStatus = "mining" THEN "change"
                                     ELSE miningStatus
                  /\ messages' = m1
             [] parsed.state = "burn" ->
                  /\ miningStatus' = "stop"
                  /\ messages' = addMessage(m1, "minted-out")
                  /\ contract' = [contract EXCEPT !.height = contract.maxHeight]
             [] OTHER ->
                  /\ messages' = m1
                  /\ UNCHANGED <<contract, miningStatus>>
  /\ UNCHANGED <<call, net, srvVars, glyph, miningEnabled, balance, utxos, accepted,
                 rejected, found, nonces, ready, inflight, loads, loops,
                 waiters>>

\* ------------------------------------------------------------ environment
\* Another miner spends the current location of a contract.
OtherMint(ref) ==
  LET tip == Last(chain[ref])
      cur == parseContractTx(tip, ref)
      next == [cur.params EXCEPT !.height = @ + 1]
      txid == [ref |-> ref, by |-> "other", h |-> Len(chain[ref])]
      out0 == IF next.height = next.maxHeight THEN Output(burnScript(ref), 0)
              ELSE Output(dMintScript(next), 1)
  IN /\ hist.mints < MaxMints
     /\ Events < MaxEvents
     /\ cur.state = "active"
     /\ chain' = [chain EXCEPT ![ref] = Append(@,
                    [id |-> txid,
                     outputs |-> <<out0, Output(ftScript, next.reward),
                                   Output(PlainScript("msg", "hi"), 0)>>])]
     /\ subQueue' = Notify(ref, subQueue)
     /\ hist' = [hist EXCEPT !.mints = @ + 1]
     /\ UNCHANGED <<call, net, srvUnspent, subscribed, contract, glyph,
                    miningStatus, miningEnabled, balance, utxos, accepted,
                    rejected, found, messages, nonces, ready,
                    subscriptionStatus, inflight, handlers, loads, loops,
                    waiters>>

\* The server announces the current status of a subscription once more.
Redeliver(ref) ==
  /\ hist.redelivered < MaxRedeliver
  /\ Events < MaxEvents
  /\ ref \in subscribed
  /\ subQueue' = Append(subQueue, StatusOf(ref))
  /\ hist' = [hist EXCEPT !.redelivered = @ + 1]
  /\ UNCHANGED <<call, net, chain, srvUnspent, subscribed, contract, glyph,
                 miningStatus, miningEnabled, balance, utxos, accepted,
                 rejected, found, messages, nonces, ready, subscriptionStatus,
                 inflight, handlers, loads, loops, waiters>>

\* ------------------------------------------------------------------- Spec
Next ==
  \/ \E i \in 1 .. MaxFound + 1 : SubmitAccepted(i)
  \/ \E i \in 1 .. MaxFound + 1 : SubmitRejected(i)
  \/ \E l \in LoopIds : Start(l)
  \/ \E l \in LoopIds : LoopEnter(l)
  \/ \E l \in LoopIds, result \in Nonces \cup {NoResult} : DispatchDone(l, result)
  \/ Stop
  \/ StopResolved
  \/ \E ref \in Refs, page \in Pages : ChangeToken(ref, page)
  \/ \E i \in 1 .. MaxLoads : ChangeTokenLoaded(i)
  \/ StatusReceived
  \/ \E i \in 1 .. MaxHandlers : HandlerFetchedRef(i)
  \/ \E i \in 1 .. MaxHandlers : HandlerFetchedTx(i)
  \/ \E ref \in Refs : OtherMint(ref)
  \/ \E ref \in Refs : Redeliver(ref)

Spec == Init /\ [][Next]_vars

\* The gateway answers every broadcast, with a txid or with an error.
BroadcastReply ==
  \E i \in 1 .. MaxFound + 1 : SubmitAccepted(i) \/ SubmitRejected(i)

\* The miner without the subscription traffic: the user, the search loop and
\* the coordinator with the gateway's replies, which always come.
CoordNext ==
  \/ \E i \in 1 .. MaxFound + 1 : SubmitAccepted(i)
  \/ \E i \in 1 .. MaxFound + 1 : SubmitRejected(i)
  \/ \E l \in LoopIds : Start(l)
  \/ \E l \in LoopIds : LoopEnter(l)
  \/ \E l \in LoopIds, result \in Nonces \cup {NoResult} : DispatchDone(l, result)
  \/ Stop
  \/ StopResolved
  \/ \E ref \in Refs, page \in Pages : ChangeToken(ref, page)
  \/ \E i \in 1 .. MaxLoads : ChangeTokenLoaded(i)

CoordFairSpec == Init /\ [][CoordNext]_vars /\ WF_vars(BroadcastReply)

\* The same miner started with any funding up to InitBalance.
GateInit ==
  /\ \E b \in 1 .. InitBalance : InitWith(b, NumberAlgo(1))
  /\ call = NoCall

GateSpec == GateInit /\ [][CoordNext]_vars

\* The same miner with B deployed for any algorithm id.
AlgoIds == 0 .. MaxAlgoId

AlgoInit ==
  /\ \E a \in AlgoIds : InitWith(InitBalance, NumberAlgo(a))
  /\ call = NoCall

AlgoSpec == AlgoInit /\ [][CoordNext]_vars

\* ------------------------------------------------- library functions
\* A function of the miner's libraries applied to arguments: the call is
\* made in the initial state and returns in one step.
Calling(fn, args) == call = [fn |-> fn, args |-> args, done |-> FALSE]

Returns(fn, result) ==
  /\ call.fn = fn
  /\ ~call.done
  /\ call' = [fn |-> fn, args |-> call.args, done |-> TRUE, result |-> result]
  /\ UNCHANGED <<minerVars, net>>

Returned(fn) == call.fn = fn /\ call.done

LwmaSolveTimes ==
  {1, TargetBlockTime, 6 * TargetBlockTime, 36 * TargetBlockTime}

InitialDifficulties(mode) ==
  IF mode = "epoch" THEN {1, 2, 3, 100}
  ELSE IF mode = "lwma" THEN {3, 1000} ELSE {100, 10000}

\* getAlgorithm on any payload and contract
AlgoInputs == {NumberAlgo(n) : n \in ((0 - 1) .. MaxAlgoId) \cup {255}}
              \cup {StringAlgo(n) : n \in AlgoIds} \cup {NoAlgo}

ContractAlgorithms == {NoAlgorithm} \cup {mapAlgorithmId(n) : n \in AlgoIds}

SelectInit ==
  /\ Idle
  /\ \E a \in AlgoInputs, c \in ContractAlgorithms :
       Calling("getAlgorithm", <<a, c>>)

SelectApply ==
  Returns("getAlgorithm", selectAlgorithm(call.args[1], call.args[2]))

SelectSpec == SelectInit /\ [][SelectApply]_vars

\* Target check of the BLAKE3 and K12 shaders, at reduced width: a byte has
\* ByteBase values, a u32 word WordBytes bytes, a hash HashWords words.
Reverse(s) == [i \in 1 .. Len(s) |-> s[Len(s) + 1 - i]]

RECURSIVE beValue(_)
beValue(bytes) ==
  IF bytes = <<>> THEN 0
  ELSE beValue(Front(bytes)) * ByteBase + Last(bytes)

WordBase == ByteBase ^ WordBytes

HashBytes == HashWords * WordBytes

\* the hash as the shader holds it: word i is the little-endian reading of
\* bytes WordBytes * i .. WordBytes * i + WordBytes - 1
hashWord(bytes, i) ==
  beValue(Reverse(SubSeq(bytes, WordBytes * i + 1, WordBytes * (i + 1))))

RECURSIVE bytesLE(_, _)
bytesLE(x, n) ==
  IF n = 0 THEN <<>> ELSE <<x % ByteBase>> \o bytesLE(x \div ByteBase, n - 1)

\* a word taken as it is stored
storedWord(x) == x

bswap32(x) == beValue(bytesLE(x, WordBytes))

\* verify of miner.ts on the hash it computed: bytes 0..3 zero, and bytes
\* 4..11 read as a big-endian u64 below the target
verifyHash(target, hash) ==
  IF \E i \in 1 .. WordBytes : hash[i] # 0 THEN FALSE
  ELSE beValue(SubSeq(hash, WordBytes + 1, 3 * WordBytes)) < target

\* new Uint32Array([0, targetHigh, targetLow]) of work.target
targetBuffer(workTarget) ==
  <<0, (workTarget \div WordBase) % WordBase, workTarget % WordBase>>

\* blake3.wgsl check_target
blake3CheckTarget(bytes, target) ==
  LET h1_be == bswap32(hashWord(bytes, 1))
      h2_be == bswap32(hashWord(bytes, 2))
  IN IF hashWord(bytes, 0) # 0 THEN FALSE
     ELSE IF h1_be < target[2] THEN TRUE
     ELSE IF h1_be > target[2] THEN FALSE
     ELSE h2_be < target[3]

\* k12.wgsl check_target; target[3 ..] lies beyond the buffer the host
\* wrote and reads as oob
RECURSIVE k12Compare(_, _, _, _)
k12Compare(bytes, target, oob, i) ==
  IF i = HashWords THEN FALSE
  ELSE LET t == IF i < Len(target) THEN target[i + 1] ELSE oob
       IN IF hashWord(bytes, i) < t THEN TRUE
          ELSE IF hashWord(bytes, i) > t THEN FALSE
          ELSE k12Compare(bytes, target, oob, i + 1)

k12CheckTarget(bytes, target, oob) == k12Compare(bytes, target, oob, 0)

\* what the V2 loop forwards: whatever the shader's check lets through
shaderAccepts(algorithm, bytes, workTarget, oob) ==
  IF algorithm = "blake3"
  THEN blake3CheckTarget(bytes, targetBuffer(workTarget))
  ELSE k12CheckTarget(bytes, targetBuffer(workTarget), oob)

Hashes == [1 .. HashBytes -> 0 .. ByteBase - 1]

WorkTargets == 1 .. MaxWorkTarget

\* a read beyond the bound buffer yields zero or a value from the buffer
OobReads(workTarget) ==
  {0} \cup {targetBuffer(workTarget)[i] : i \in 1 .. 3}

TargetInit ==
  /\ Idle
  /\ \E algorithm \in {"blake3", "k12"}, bytes \in Hashes,
        workTarget \in WorkTargets :
       \E oob \in OobReads(workTarget) :
         Calling("check_target", <<algorithm, bytes, workTarget, oob>>)

TargetApply ==
  Returns("check_target", shaderAccepts(call.args[1], call.args[2],
                                        call.args[3], call.args[4]))

TargetSpec == TargetInit /\ [][TargetApply]_vars

\* ------------------------------------------------ state script, in bytes
\* A number is a sign and the bytes of its magnitude, least significant
\* first, without trailing zero bytes (bigint).
Num(neg, mag) == [neg |-> neg, mag |-> mag]

RECURSIVE stripZeros(_)
stripZeros(s) ==
  IF s = <<>> THEN s
  ELSE IF Last(s) = 0 THEN stripZeros(Front(s)) ELSE s

RECURSIVE magLeq(_, _)
magLeq(a, b) ==
  IF Len(a) # Len(b) THEN Len(a) < Len(b)
  ELSE IF a = <<>> THEN TRUE
  ELSE IF Last(a) # Last(b) THEN Last(a) < Last(b)
  ELSE magLeq(Front(a), Front(b))

\* libauth numberToBinUint32LEClamped
numberToBinUint32LEClamped(n) ==
  IF n.neg THEN <<0, 0, 0, 0>>
  ELSE IF Len(n.mag) > 4 THEN <<255, 255, 255, 255>>
  ELSE n.mag \o [i \in 1 .. 4 - Len(n.mag) |-> 0]

\* libauth bigIntToVmNumber: minimal little-endian sign-magnitude
bigIntToVmNumber(n) ==
  IF n.mag = <<>> THEN <<>>
  ELSE IF Last(n.mag) >= 128
       THEN n.mag \o <<IF n.neg THEN 128 ELSE 0>>
       ELSE IF n.neg THEN Front(n.mag) \o <<Last(n.mag) + 128>> ELSE n.mag

\* libauth vmNumberToBigInt with requireMinimalEncoding false; more than
\* eight bytes are out of range
VmNumberError == [neg |-> FALSE, mag |-> <<256>>]

vmNumberToBigInt(bytes) ==
  IF bytes = <<>> THEN Num(FALSE, <<>>)
  ELSE IF Len(bytes) > 8 THEN VmNumberError
  ELSE LET mag == stripZeros(Front(bytes) \o <<Last(bytes) % 128>>)
       IN Num(Last(bytes) >= 128 /\ mag # <<>>, mag)

\* libauth encodeDataPush, for at most 75 bytes
encodeDataPush(data) ==
  IF Len(data) = 0 THEN <<0>>
  ELSE IF Len(data) = 1 /\ data[1] \in 1 .. 16 THEN <<80 + data[1]>>
  ELSE IF Len(data) = 1 /\ data[1] = 129 THEN <<79>>
  ELSE <<Len(data)>> \o data

push4bytes(n) == encodeDataPush(numberToBinUint32LEClamped(n))

pushMinimal(n) == encodeDataPush(bigIntToVmNumber(n))

\* In a script the 36 bytes of a reference take one place, a number above
\* every byte, and so does the contract's code part (bd5175...7551).
RefBytes(ref) == 256 + RefNum(ref)

RefOf(b) == IF b = RefBytes("A") THEN "A" ELSE "B"

CodePart == 999

dMintScriptHex(c) ==
  push4bytes(c.height) \o <<216, RefBytes(c.contractRef)>>
    \o <<208, RefBytes(c.tokenRef)>> \o pushMinimal(c.maxHeight)
    \o pushMinimal(c.reward) \o pushMinimal(c.target) \o <<CodePart>>

\* parseDmintScript: the state script before the code part, "" without it
parseDmintScriptHex(script) ==
  IF script # <<>> /\ Last(script) = CodePart THEN Front(script) ELSE <<>>

\* Script.fromHex(script).toASM().split(" "): data pushes print their bytes
\* in hex, OP_0 prints "0", OP_1NEGATE "-1", other opcodes their names
RECURSIVE toASM(_)
toASM(s) ==
  IF s = <<>> THEN <<>>
  ELSE LET op == s[1]
       IN IF op = 0 THEN <<[k |-> "0"]>> \o toASM(Tail(s))
          ELSE IF op \in 1 .. 75
          THEN IF Len(s) < op + 1 THEN <<[k |-> "op", code |-> op]>>
               ELSE <<[k |-> "hex", bytes |-> SubSeq(s, 2, op + 1)]>>
                      \o toASM(SubSeq(s, op + 2, Len(s)))
          ELSE IF op = 79 THEN <<[k |-> "-1"]>> \o toASM(Tail(s))
          ELSE IF op \in {208, 216} /\ Len(s) >= 2
          THEN <<[k |-> "op", code |-> op], [k |-> "ref", ref |-> RefOf(s[2])]>>
                 \o toASM(Tail(Tail(s)))
          ELSE <<[k |-> "op", code |-> op]>> \o toASM(Tail(s))

\* opcodeToNum: a number, false, or an exception of hexToBytes, which
\* refuses "0" (odd length) and "-1" (no hex digits)
NumFalse == [k |-> "false"]
NumThrow == [k |-> "throw"]

opcodeToNum(n) ==
  IF n.k = "op"
  THEN IF n.code \in 81 .. 96
       THEN [k |-> "num", n |-> Num(FALSE, <<n.code - 80>>)]
       ELSE NumFalse
  ELSE IF n.k \in {"0", "-1"} THEN NumThrow
  ELSE IF n.k = "ref" THEN NumFalse
  ELSE IF vmNumberToBigInt(n.bytes) = VmNumberError THEN NumFalse
  ELSE [k |-> "num", n |-> vmNumberToBigInt(n.bytes)]

\* opcodes.splice(1, 2): removes the second and third element
spliced(opcodes) ==
  SubSeq(opcodes, 2, IF Len(opcodes) < 3 THEN Len(opcodes) ELSE 3)

afterSplice(opcodes) ==
  SubSeq(opcodes, 1, IF Len(opcodes) < 1 THEN 0 ELSE 1)
    \o SubSeq(opcodes, 4, Len(opcodes))

NoState == [state |-> "none"]
ParseThrows == [state |-> "throw"]

\* parseContractTx on one state script: the body of contracts' map callback
parseStateScript(script, ref) ==
  LET opcodes == toASM(script)
      first == spliced(opcodes)
      opcodes1 == afterSplice(opcodes)
      second == spliced(opcodes1)
      opcodes2 == afterSplice(opcodes1)
      mapped == [i \in 1 .. Len(opcodes2) |-> opcodeToNum(opcodes2[i])]
      numbers == SelectSeq(mapped, LAMBDA v : v # NumFalse)
  IN IF \/ Len(first) < 2 \/ Len(second) < 2
        \/ first[1] # [k |-> "op", code |-> 216]
        \/ second[1] # [k |-> "op", code |-> 208]
        \/ first[2] # [k |-> "ref", ref |-> ref]
     THEN NoState
     ELSE IF \E i \in 1 .. Len(mapped) : mapped[i] = NumThrow
     THEN ParseThrows
     ELSE IF Len(numbers) < 4 THEN NoState
     ELSE [state |-> "active", height |-> numbers[1].n,
           contractRef |-> first[2].ref,
           tokenRef |-> IF second[2].k = "ref" THEN second[2].ref ELSE "none",
           maxHeight |-> numbers[2].n, reward |-> numbers[3].n,
           target |-> numbers[4].n]

\* parseContractTx on the output carrying script
parseScriptHex(script, ref) ==
  IF parseDmintScriptHex(script) = <<>> THEN NoState
  ELSE parseStateScript(parseDmintScriptHex(script), ref)

\* Contract states to encode: heights and maximal heights below 2^32,
\* rewards and targets above zero.
HeightMags == {<<>>, <<1>>, <<16>>, <<17>>, <<128>>, <<0, 1>>,
               <<255, 255, 255, 127>>, <<0, 0, 0, 128>>, <<5, 0, 0, 128>>,
               <<255, 255, 255, 255>>}

AmountMags == {<<1>>, <<16>>, <<17>>, <<129>>, <<255>>, <<0, 1>>,
               <<255, 255, 255, 255, 255, 255, 255, 127>>}

ContractStates ==
  {[height |-> Num(FALSE, h), contractRef |-> r, tokenRef |-> r,
    maxHeight |-> Num(FALSE, m), reward |-> Num(FALSE, rw),
    target |-> Num(FALSE, t)] :
     h \in HeightMags, m \in HeightMags, r \in Refs, rw \in AmountMags,
     t \in {<<1>>, <<129>>, <<0, 1>>}}

RoundTripInit ==
  /\ Idle
  /\ \E c \in ContractStates :
       magLeq(c.height.mag, c.maxHeight.mag) /\ Calling("dMintScript", <<c>>)

RoundTripApply ==
  Returns("dMintScript",
          parseScriptHex(dMintScriptHex(call.args[1]), call.args[1].contractRef))

RoundTripSpec == RoundTripInit /\ [][RoundTripApply]_vars

\* State scripts as they may stand on the chain: each numeric push is
\* missing or pushes some bytes, minimally encoded or not.
rawPush(data) == <<Len(data)>> \o data

NumericPushes ==
  {<<>>} \cup {rawPush(d) : d \in {<<0>>, <<1>>, <<5>>, <<129>>, <<0, 0, 0, 128>>,
                                    <<1, 1, 1, 1, 1, 1, 1, 1, 1>>}}
         \cup {pushMinimal(Num(FALSE, <<3>>))}

StateScripts ==
  {h \o <<216, RefBytes(r)>> \o <<208, RefBytes(r)>> \o m \o rw \o t
     \o <<CodePart>> :
     h \in NumericPushes, m \in NumericPushes, rw \in NumericPushes,
     t \in NumericPushes, r \in Refs}

ParserInit ==
  /\ Idle
  /\ \E script \in StateScripts, ref \in Refs :
       Calling("parseContractTx", <<script, ref>>)

ParserApply ==
  Returns("parseContractTx", parseScriptHex(call.args[1], call.args[2]))

ParserSpec == ParserInit /\ [][ParserApply]_vars

\* ------------------------------------------------ difficulty adjustment
\* bigint division, which truncates towards zero
bigDiv(a, b) ==
  LET abs(x) == IF x < 0 THEN 0 - x ELSE x
      q == abs(a) \div abs(b)
  IN IF (a < 0) # (b < 0) THEN 0 - q ELSE q

\* bigint >>, which rounds down
shiftRight(a, bits) == a \div (2 ^ bits)

\* params.field || fallback
orDefault(field, fallback) == IF field = 0 THEN fallback ELSE field

\* a * b / PRECISION of non-negative bigints, the product taken in parts
\* that stay within 31 bits
mulDivPrecision(a, b) ==
  LET root == 1000
      upper == (b % PRECISION) \div root
      lower == b % root
  IN a * (b \div PRECISION) + (a * upper + (a * lower) \div root) \div root

Min(a, b) == IF a < b THEN a ELSE b

Max(a, b) == IF a > b THEN a ELSE b

\* FixedDAA.calculateNextDifficulty
fixedCalculate(currentState, newBlockHeight, newBlockTime) ==
  currentState.currentDifficulty

\* a calculator that leaves the difficulty alone
fixedNextDifficulty(currentState, newBlockHeight, newBlockTime) ==
  currentState.currentDifficulty

\* the constructor of EpochDAA
epochParams(params) ==
  [epochLength |-> orDefault(params.epochLength, 2016),
   maxAdjustment |-> orDefault(params.maxAdjustment, 4),
   targetBlockTime |-> orDefault(params.targetBlockTime, 600)]

\* EpochDAA.calculateNextDifficulty
epochCalculate(params, currentState, newBlockHeight, newBlockTime) ==
  LET this == epochParams(params)
  IN
  IF newBlockHeight % this.epochLength # 0 THEN currentState.currentDifficulty
  ELSE LET expectedTime == this.epochLength * this.targetBlockTime
           actualTime == newBlockTime - currentState.lastBlockTime
       IN IF actualTime = 0 THEN currentState.currentDifficulty
          ELSE LET adjustment == bigDiv(expectedTime * PRECISION, actualTime)
                   maxAdjustmentScaled == this.maxAdjustment * PRECISION
                   minAdjustmentScaled == bigDiv(PRECISION, this.maxAdjustment)
                   adjustmentScaled ==
                     IF adjustment > maxAdjustmentScaled
                     THEN maxAdjustmentScaled
                     ELSE IF adjustment < minAdjustmentScaled
                          THEN minAdjustmentScaled ELSE adjustment
                   newDifficulty ==
                     mulDivPrecision(currentState.currentDifficulty,
                                     adjustmentScaled)
               IN IF newDifficulty > 0 THEN newDifficulty ELSE 1

\* EpochDAA.calculateNextDifficulty with the manager's parameters
epochNextDifficulty(currentState, newBlockHeight, newBlockTime) ==
  epochCalculate([epochLength |-> EpochLength, maxAdjustment |-> MaxAdjustment,
                  targetBlockTime |-> TargetBlockTime],
                 currentState, newBlockHeight, newBlockTime)

\* EpochDAA.validateParams
epochValidateParams(params) ==
  /\ orDefault(params.epochLength, 2016) > 0
  /\ orDefault(params.maxAdjustment, 4) > 0
  /\ orDefault(params.targetBlockTime, 600) > 0

\* exp(x) as 1 + x, the linear approximation
linearExp(exponent) == 2 ^ RBITS + exponent

\* (a * b) >> RBITS of bigints, the product taken in parts that stay
\* within 31 bits
mulShift(a, b) ==
  LET abs(x) == IF x < 0 THEN 0 - x ELSE x
      radix == 2 ^ RBITS
      half == 2 ^ (RBITS \div 2)
      a1 == abs(a) \div radix
      a0 == abs(a) % radix
      b1 == abs(b) \div radix
      b0 == abs(b) % radix
      upper == (a0 \div half) * b0
      lower == (a0 % half) * b0
      quotient == a1 * b1 * radix + a1 * b0 + a0 * b1
                    + (upper + lower \div half) \div half
      remainder == ((upper % half) * half + lower) % radix
  IN IF (a < 0) # (b < 0)
     THEN 0 - (quotient + IF remainder = 0 THEN 0 ELSE 1)
     ELSE quotient

\* ASERTDAA.fixedPointExp
fixedPointExp(exponent) ==
  LET one == 2 ^ RBITS
      maxExp == 4 * one
      minExp == 0 - 4 * one
      x == IF exponent > maxExp THEN maxExp
           ELSE IF exponent < minExp THEN minExp ELSE exponent
      x2 == mulShift(x, x)
      x3 == mulShift(x2, x)
  IN one + x + shiftRight(x2, 1) + bigDiv(x3, 6)


\* the constructor of ASERTDAA
asertParams(params) ==
  [halfLife |-> orDefault(params.halfLife, 1000),
   targetBlockTime |-> orDefault(params.targetBlockTime, 60),
   asymptote |-> orDefault(params.asymptote, 0)]

\* the exponent of ASERTDAA.calculateNextDifficulty
asertExponent(params, currentState, newBlockHeight, newBlockTime) ==
  LET this == asertParams(params)
      timeDelta == newBlockTime - currentState.timeStarted
      heightDelta == newBlockHeight - currentState.lastBlockHeight
      expectedTime == heightDelta * this.targetBlockTime
      halfLifeScaled == this.halfLife * this.targetBlockTime
      timeDeviation == timeDelta - expectedTime
  IN bigDiv(timeDeviation * ln2Scaled, halfLifeScaled)

\* ASERTDAA.calculateNextDifficulty
asertCalculate(params, currentState, newBlockHeight, newBlockTime) ==
  LET this == asertParams(params)
      heightDelta == newBlockHeight - currentState.lastBlockHeight
      exponent == asertExponent(params, currentState, newBlockHeight,
                                newBlockTime)
      adjustmentScaled == fixedPointExp(exponent)
      adjusted == mulShift(currentState.currentDifficulty, adjustmentScaled)
      newDifficulty == IF adjusted < 1 THEN 1 ELSE adjusted
  IN IF heightDelta <= 0 THEN currentState.currentDifficulty
     ELSE IF this.asymptote > 0 /\ newDifficulty > this.asymptote
          THEN this.asymptote + bigDiv(newDifficulty - this.asymptote, 2)
          ELSE newDifficulty

\* ASERTDAA.calculateNextDifficulty with the manager's parameters
asertNextDifficulty(currentState, newBlockHeight, newBlockTime) ==
  asertCalculate([halfLife |-> HalfLife, targetBlockTime |-> TargetBlockTime,
                  asymptote |-> 0],
                 currentState, newBlockHeight, newBlockTime)

\* the constructor of LWMADAA
lwmaParams(params) ==
  [windowSize |-> orDefault(params.windowSize, 144),
   targetBlockTime |-> orDefault(params.targetBlockTime, 60)]

\* the loop of LWMADAA.calculateNextDifficulty: the sum over i = 0 .. n - 1
\* of weight i + 1, alone or times the clamped solve time
RECURSIVE weightedSum(_, _, _, _, _)
weightedSum(blockTimes, startIndex, n, targetBlockTime, timed) ==
  IF n = 0 THEN 0
  ELSE LET i == n - 1
           \* blockTimes[startIndex + i + 1] - blockTimes[startIndex + i],
           \* the sequence counted from 1
           solveTime == blockTimes[startIndex + i + 2]
                          - blockTimes[startIndex + i + 1]
           clampedSolveTime == Min(Max(solveTime, 1), targetBlockTime * 6)
       IN weightedSum(blockTimes, startIndex, n - 1, targetBlockTime, timed)
            + (IF timed THEN clampedSolveTime ELSE 1) * (i + 1)

\* LWMADAA.calculateNextDifficulty
lwmaCalculate(params, currentState) ==
  LET this == lwmaParams(params)
      blockTimes == currentState.blockTimes
      n == Min(Len(blockTimes) - 1, this.windowSize)
      startIndex == Max(0, Len(blockTimes) - n - 1)
      weightedSolveTimeSum ==
        weightedSum(blockTimes, startIndex, n, this.targetBlockTime, TRUE)
      weightSum ==
        weightedSum(blockTimes, startIndex, n, this.targetBlockTime, FALSE)
      weightedAvgSolveTime == bigDiv(weightedSolveTimeSum, weightSum)
      adjustmentScaled ==
        bigDiv(this.targetBlockTime * PRECISION, weightedAvgSolveTime)
      maxAdjustment == 3 * PRECISION
      minAdjustment == bigDiv(PRECISION, 3)
      clampedAdjustment ==
        IF adjustmentScaled > maxAdjustment THEN maxAdjustment
        ELSE IF adjustmentScaled < minAdjustment THEN minAdjustment
             ELSE adjustmentScaled
      newDifficulty ==
        mulDivPrecision(currentState.currentDifficulty, clampedAdjustment)
  IN IF Len(blockTimes) < 2 \/ n < 1 THEN currentState.currentDifficulty
     ELSE IF weightSum = 0 \/ weightedSolveTimeSum = 0
          THEN currentState.currentDifficulty
          ELSE IF newDifficulty > 0 THEN newDifficulty ELSE 1

\* A difficulty of a schedule is a number, which need not be whole: it is
\* counted in parts of 1 / NumberUnit. BigInt(number) is the whole number
\* and throws a RangeError for any other.
isInteger(number) == number % NumberUnit = 0

toBigInt(number) == number \div NumberUnit

\* the loop of ScheduleDAA.calculateNextDifficulty, from entry i down: the
\* entry it stops at, 0 when it runs through
RECURSIVE scheduleScan(_, _, _)
scheduleScan(schedule, i, newBlockHeight) ==
  IF i < 1 THEN 0
  ELSE IF newBlockHeight >= schedule[i].height THEN i
       ELSE scheduleScan(schedule, i - 1, newBlockHeight)

\* ScheduleDAA.calculateNextDifficulty throws
scheduleThrows(params, currentState, newBlockHeight) ==
  LET i == scheduleScan(params.schedule, Len(params.schedule), newBlockHeight)
  IN i # 0 /\ ~isInteger(params.schedule[i].difficulty)

\* ScheduleDAA.calculateNextDifficulty returns
scheduleCalculate(params, currentState, newBlockHeight) ==
  LET i == scheduleScan(params.schedule, Len(params.schedule), newBlockHeight)
  IN IF i = 0 THEN currentState.currentDifficulty
     ELSE toBigInt(params.schedule[i].difficulty)

\* ScheduleDAA.validateParams
scheduleValidateParams(params) ==
  /\ Len(params.schedule) # 0
  /\ \A i \in 1 .. Len(params.schedule) :
       /\ ~(params.schedule[i].height < 0 \/ params.schedule[i].difficulty <= 0)
       /\ ~(i > 1 /\ params.schedule[i].height <= params.schedule[i - 1].height)

\* LWMADAA.validateParams
lwmaValidateParams(params) ==
  /\ orDefault(params.windowSize, 144) > 0
  /\ orDefault(params.targetBlockTime, 60) > 0

\* ASERTDAA.validateParams
asertValidateParams(params) ==
  /\ orDefault(params.halfLife, 1000) > 0
  /\ orDefault(params.targetBlockTime, 60) > 0
  /\ orDefault(params.asymptote, 0) >= 0

\* initializeState of both calculators
initializeState(initialDifficulty, initialHeight, initialTime) ==
  [currentDifficulty |-> initialDifficulty, lastBlockHeight |-> initialHeight,
   lastBlockTime |-> initialTime, timeStarted |-> initialTime]

\* LWMADAA.initializeState
lwmaInitializeState(initialDifficulty, initialHeight, initialTime) ==
  [currentDifficulty |-> initialDifficulty, lastBlockHeight |-> initialHeight,
   lastBlockTime |-> initialTime, blockTimes |-> <<initialTime>>,
   difficulties |-> <<initialDifficulty>>]

\* LWMADAA.calculateNextDifficulty with the manager's parameters
lwmaNextDifficulty(currentState, newBlockHeight, newBlockTime) ==
  lwmaCalculate([windowSize |-> WindowSize,
                 targetBlockTime |-> TargetBlockTime], currentState)

calculatorNext(mode, currentState, newBlockHeight, newBlockTime) ==
  IF mode = "epoch"
  THEN epochNextDifficulty(currentState, newBlockHeight, newBlockTime)
  ELSE IF mode = "lwma"
       THEN lwmaNextDifficulty(currentState, newBlockHeight, newBlockTime)
       ELSE asertNextDifficulty(currentState, newBlockHeight, newBlockTime)

\* a history that is never cut
pushAll(history, entry) == Append(history, entry)

\* the history DAAManager.calculateNextDifficulty keeps
pushHistory(history, entry) ==
  LET pushed == Append(history, entry)
  IN IF Len(pushed) > maxHistorySize
     THEN SubSeq(pushed, Len(pushed) - maxHistorySize + 1, Len(pushed))
     ELSE pushed

\* DAAManager.calculateNextDifficulty: the calculator on the manager's
\* state, which then takes the new difficulty, height and time
managerNext(mode, state, newBlockHeight, newBlockTime) ==
  LET updated ==
        [state EXCEPT
           !.currentDifficulty = calculatorNext(mode, state, newBlockHeight,
                                                newBlockTime),
           !.lastBlockHeight = newBlockHeight,
           !.lastBlockTime = newBlockTime]
      timed == IF "blockTimes" \in DOMAIN state
               THEN [updated EXCEPT !.blockTimes = pushHistory(@, newBlockTime)]
               ELSE updated
  IN IF "difficulties" \in DOMAIN state
     THEN [timed EXCEPT
             !.difficulties = pushHistory(@, updated.currentDifficulty)]
     ELSE timed

\* A manager created at height 0 and time 0 and fed block after block. With
\* the manager go the difficulty and time it was created with, the time of
\* the block that began the running epoch, and whether every block so far
\* came TargetBlockTime after the one before.
SolveTimes == {0, TargetBlockTime \div 2, TargetBlockTime,
               2 * TargetBlockTime, 4 * TargetBlockTime, 36 * TargetBlockTime}

DaaInit ==
  /\ Idle
  /\ \E mode \in {"epoch", "asert", "lwma"} :
       \E d \in InitialDifficulties(mode) :
       call = [fn |-> "DAAManager", mode |-> mode, done |-> FALSE,
               state |-> IF mode = "lwma" THEN lwmaInitializeState(d, 0, 0)
                         ELSE initializeState(d, 0, 0),
               anchor |-> d,
               epochStart |-> 0, onSchedule |-> TRUE]

ManagerBlock(solveTime) ==
  /\ call.fn = "DAAManager"
  /\ call.state.lastBlockHeight < MaxBlocks
  /\ LET newBlockHeight == call.state.lastBlockHeight + 1
         newBlockTime == call.state.lastBlockTime + solveTime
     IN call' = [call EXCEPT
                   !.state = managerNext(call.mode, call.state, newBlockHeight,
                                         newBlockTime),
                   !.done = TRUE,
                   !.epochStart = IF newBlockHeight % EpochLength = 0
                                  THEN newBlockTime ELSE @,
                   !.onSchedule = @ /\ solveTime = TargetBlockTime]
  /\ UNCHANGED <<minerVars, net>>

DaaNext == \E solveTime \in SolveTimes : ManagerBlock(solveTime)

DaaSpec == DaaInit /\ [][DaaNext]_vars

\* EpochDAA.calculateNextDifficulty on any state, height and time
EpochTimes ==
  LET expected == EpochLength * TargetBlockTime
  IN {0, 1, expected - 1, expected, expected + 1, 2 * expected,
      MaxAdjustment * expected, (MaxAdjustment + 1) * expected}

EpochInit ==
  /\ Idle
  /\ \E d \in 1 .. MaxDifficulty, start \in {0, TargetBlockTime},
        h \in 1 .. 2 * EpochLength, t \in EpochTimes :
       Calling("epochNextDifficulty", <<initializeState(d, h - 1, start), h, t>>)

EpochApply ==
  Returns("epochNextDifficulty",
          epochNextDifficulty(call.args[1], call.args[2], call.args[3]))

EpochSpec == EpochInit /\ [][EpochApply]_vars

\* ASERTDAA.calculateNextDifficulty on any parameters, state, height and time
AsertParams ==
  [halfLife : {1, 3600}, targetBlockTime : {60}, asymptote : {0, 500}]

AsertTimes == {0, 60, 406, 407, 600, 946, 947, 4200, 36600}

AsertInit ==
  /\ Idle
  /\ \E p \in AsertParams, d \in {1, 1000}, h \in {0, 1, 10},
        t \in AsertTimes :
       Calling("asertCalculate", <<p, initializeState(d, 0, 0), h, t>>)

AsertApply ==
  Returns("asertCalculate",
          asertCalculate(call.args[1], call.args[2], call.args[3],
                         call.args[4]))

AsertSpec == AsertInit /\ [][AsertApply]_vars

\* LWMADAA.calculateNextDifficulty on any window, history and difficulty.
\* A history is the block times of up to MaxHistory blocks after time 0.
RECURSIVE Histories(_)
Histories(k) ==
  IF k = 0 THEN {<<0>>}
  ELSE LET shorter == Histories(k - 1)
       IN shorter \cup
          {Append(h, h[Len(h)] + s) :
             h \in {g \in shorter : Len(g) = k}, s \in LwmaSolveTimes}

LwmaInit ==
  /\ Idle
  /\ \E w \in {1, 3, 5}, d \in {1, 2, 3, 6, 7, 1000},
        h \in Histories(MaxHistory) :
       Calling("lwmaCalculate",
               <<[windowSize |-> w, targetBlockTime |-> TargetBlockTime],
                 [currentDifficulty |-> d, blockTimes |-> h]>>)

LwmaApply ==
  Returns("lwmaCalculate", lwmaCalculate(call.args[1], call.args[2]))

LwmaSpec == LwmaInit /\ [][LwmaApply]_vars

\* ScheduleDAA.calculateNextDifficulty applied to one height after another,
\* none below the one before. The call keeps the last difficulty returned,
\* whether a returned difficulty was ever below the one before it, and
\* whether the heights so far are 0, 1, 2, ... without a gap.
ScheduleEntries ==
  [height : 0 .. MaxScheduleHeight,
   difficulty : {d * NumberUnit : d \in 0 .. MaxScheduleDifficulty}]

Schedules ==
  {<<>>} \cup {<<e>> : e \in ScheduleEntries}
         \cup {<<e, f>> : e \in ScheduleEntries, f \in ScheduleEntries}

ScheduleInit ==
  /\ Idle
  /\ \E s \in Schedules, d \in 1 .. MaxScheduleDifficulty :
       call = [fn |-> "scheduleCalculate", params |-> [schedule |-> s],
               state |-> initializeState(d, 0, 0), done |-> FALSE,
               height |-> 0, last |-> 0, dropped |-> FALSE, swept |-> TRUE]

ScheduleApply(newBlockHeight) ==
  /\ call.fn = "scheduleCalculate"
  /\ newBlockHeight >= call.height
  /\ LET next == scheduleCalculate(call.params, call.state, newBlockHeight)
     IN call' = [call EXCEPT
                   !.done = TRUE, !.height = newBlockHeight, !.last = next,
                   !.dropped = @ \/ (call.done /\ next < call.last),
                   !.swept = @ /\ newBlockHeight =
                                    (IF call.done THEN call.height + 1 ELSE 0)]
  /\ UNCHANGED <<minerVars, net>>

ScheduleNext == \E h \in 0 .. MaxScheduleHeight + 1 : ScheduleApply(h)

ScheduleSpec == ScheduleInit /\ [][ScheduleNext]_vars

\* DAARegistry.validateParams
validateParams(mode, params) ==
  CASE mode = "fixed" -> TRUE
    [] mode = "epoch" -> epochValidateParams(params)
    [] mode = "lwma" -> lwmaValidateParams(params)
    [] mode = "asert" -> asertValidateParams(params)
    [] mode = "schedule" -> scheduleValidateParams(params)

\* calculateNextDifficulty of the calculator DAARegistry.getCalculator makes
calculate(mode, params, currentState, newBlockHeight, newBlockTime) ==
  CASE mode = "fixed" ->
         fixedCalculate(currentState, newBlockHeight, newBlockTime)
    [] mode = "epoch" ->
         epochCalculate(params, currentState, newBlockHeight, newBlockTime)
    [] mode = "lwma" -> lwmaCalculate(params, currentState)
    [] mode = "asert" ->
         asertCalculate(params, currentState, newBlockHeight, newBlockTime)
    [] mode = "schedule" ->
         scheduleCalculate(params, currentState, newBlockHeight)

calculateThrows(mode, params, currentState, newBlockHeight, newBlockTime) ==
  mode = "schedule" /\ scheduleThrows(params, currentState, newBlockHeight)

\* Every calculator on parameters that may or may not pass its validation
ModeParams(mode) ==
  CASE mode = "fixed" -> {[targetBlockTime |-> 0]}
    [] mode = "epoch" ->
         [epochLength : {0 - 1, 1, 2}, maxAdjustment : {0, 1, 4},
          targetBlockTime : {60}]
    [] mode = "lwma" -> [windowSize : {0 - 1, 0, 1, 5}, targetBlockTime : {60}]
    [] mode = "asert" ->
         [halfLife : {1, 3600}, targetBlockTime : {60},
          asymptote : {0 - 1, 0, 500}]
    [] mode = "schedule" ->
         LET entries == [height : 0 .. 1,
                         difficulty : 0 .. MaxScheduleDifficulty * NumberUnit]
         IN {[schedule |-> s] :
               s \in {<<>>} \cup {<<e>> : e \in entries}
                            \cup {<<e, f>> : e \in entries, f \in entries}}

ModeStates(mode) ==
  IF mode = "lwma"
  THEN {[currentDifficulty |-> d, lastBlockHeight |-> Len(h) - 1,
         lastBlockTime |-> h[Len(h)], blockTimes |-> h] :
          d \in {1, 1000}, h \in Histories(2)}
  ELSE {[initializeState(d, 0, 0) EXCEPT !.lastBlockTime = t] :
          d \in {1, 1000}, t \in {0, 60}}

ModesInit ==
  /\ Idle
  /\ \E mode \in {"fixed", "epoch", "lwma", "asert", "schedule"} :
       \E p \in ModeParams(mode), s \in ModeStates(mode), h \in {1, 2},
          t \in {0, 30, 60, 600} :
         call = [fn |-> "calculateNextDifficulty", mode |-> mode,
                 args |-> <<p, s, h, t>>, done |-> FALSE]

\* validateParams and, for parameters that pass, calculateNextDifficulty
ModesApply ==
  /\ call.fn = "calculateNextDifficulty" /\ ~call.done
  /\ LET valid == validateParams(call.mode, call.args[1])
         threw == valid /\ calculateThrows(call.mode, call.args[1],
                                           call.args[2], call.args[3],
                                           call.args[4])
     IN call' = [fn |-> call.fn, mode |-> call.mode, args |-> call.args,
                 done |-> TRUE, valid |-> valid, threw |-> threw,
                 result |-> IF valid /\ ~threw
                            THEN calculate(call.mode, call.args[1],
                                           call.args[2], call.args[3],
                                           call.args[4])
                            ELSE 0]
  /\ UNCHANGED <<minerVars, net>>

ModesSpec == ModesInit /\ [][ModesApply]_vars

\* ------------------------------------------------ DAA parameter encoding
\* A string is the sequence of its characters.
DigitChars == <<"0", "1", "2", "3", "4", "5", "6", "7", "8", "9">>

\* `${number}` of a whole number
RECURSIVE digits(_)
digits(n) ==
  IF n < 10 THEN <<DigitChars[n + 1]>>
  ELSE digits(n \div 10) \o <<DigitChars[(n % 10) + 1]>>

numberToString(n) == IF n < 0 THEN <<"-">> \o digits(0 - n) ELSE digits(n)

\* Number(string) of a decimal numeral; the empty string is 0
RECURSIVE digitsValue(_)
digitsValue(s) ==
  IF s = <<>> THEN 0
  ELSE 10 * digitsValue(SubSeq(s, 1, Len(s) - 1))
         + (CHOOSE d \in 0 .. 9 : DigitChars[d + 1] = s[Len(s)])

stringToNumber(s) ==
  IF s # <<>> /\ s[1] = "-" THEN 0 - digitsValue(Tail(s)) ELSE digitsValue(s)

\* string.split(separator)
RECURSIVE split(_, _)
split(s, separator) ==
  IF \A i \in 1 .. Len(s) : s[i] # separator THEN <<s>>
  ELSE LET i == CHOOSE j \in 1 .. Len(s) :
                  s[j] = separator /\ \A k \in 1 .. j - 1 : s[k] # separator
       IN <<SubSeq(s, 1, i - 1)>> \o split(SubSeq(s, i + 1, Len(s)), separator)

\* array.join(separator)
RECURSIVE join(_, _)
join(strings, separator) ==
  IF strings = <<>> THEN <<>>
  ELSE IF Len(strings) = 1 THEN strings[1]
       ELSE strings[1] \o <<separator>> \o join(Tail(strings), separator)

\* params.field of parameters in which any field may be missing; undefined
\* is falsy like 0
field(params, name) == IF name \in DOMAIN params THEN params[name] ELSE 0

\* element i of a destructured array, undefined (falsy) past its end
element(array, i) == IF i <= Len(array) THEN array[i] ELSE 0

\* a difficulty of a schedule, counted in parts of 1 / NumberUnit, as a
\* string and back (whole numbers only)
difficultyToString(number) == numberToString(number \div NumberUnit)

stringToDifficulty(s) == stringToNumber(s) * NumberUnit

\* const params: DAAParams = {}
EmptyParams == [name \in {} |-> 0]

encodeDAAParams(mode, params) ==
  CASE mode = "fixed" -> <<>>
    [] mode = "asert" ->
         join(<<numberToString(orDefault(field(params, "targetBlockTime"), 60)),
                numberToString(orDefault(field(params, "halfLife"), 1000)),
                numberToString(orDefault(field(params, "asymptote"), 0))>>,
              ",")
    [] mode = "lwma" ->
         join(<<numberToString(orDefault(field(params, "targetBlockTime"), 60)),
                numberToString(orDefault(field(params, "windowSize"), 144))>>,
              ",")
    [] mode = "epoch" ->
         join(<<numberToString(orDefault(field(params, "targetBlockTime"), 60)),
                numberToString(orDefault(field(params, "epochLength"), 2016)),
                numberToString(orDefault(field(params, "maxAdjustment"), 4))>>,
              ",")
    [] mode = "schedule" ->
         IF "schedule" \in DOMAIN params
         THEN join([i \in 1 .. Len(params.schedule) |->
                      numberToString(params.schedule[i].height) \o <<":">>
                        \o difficultyToString(params.schedule[i].difficulty)],
                   ",")
         ELSE <<>>

decodeDAAParams(mode, encoded) ==
  LET numbers == [i \in 1 .. Len(split(encoded, ",")) |->
                    stringToNumber(split(encoded, ",")[i])]
  IN IF encoded = <<>> THEN EmptyParams
     ELSE CASE mode = "asert" ->
                 [targetBlockTime |-> orDefault(element(numbers, 1), 60),
                  halfLife |-> orDefault(element(numbers, 2), 1000),
                  asymptote |-> orDefault(element(numbers, 3), 0)]
            [] mode = "lwma" ->
                 [targetBlockTime |-> orDefault(element(numbers, 1), 60),
                  windowSize |-> orDefault(element(numbers, 2), 144)]
            [] mode = "epoch" ->
                 [targetBlockTime |-> orDefault(element(numbers, 1), 60),
                  epochLength |-> orDefault(element(numbers, 2), 2016),
                  maxAdjustment |-> orDefault(element(numbers, 3), 4)]
            [] mode = "schedule" ->
                 [schedule |->
                    [i \in 1 .. Len(split(encoded, ",")) |->
                       LET pair == split(split(encoded, ",")[i], ":")
                       IN [height |-> stringToNumber(pair[1]),
                           difficulty |-> stringToDifficulty(pair[2])]]]
            [] mode = "fixed" -> EmptyParams

\* the parameters with every missing field of the mode undefined (0)
ModeFields(mode) ==
  CASE mode = "fixed" -> {}
    [] mode = "asert" -> {"targetBlockTime", "halfLife", "asymptote"}
    [] mode = "lwma" -> {"targetBlockTime", "windowSize"}
    [] mode = "epoch" -> {"targetBlockTime", "epochLength", "maxAdjustment"}
    [] mode = "schedule" -> {"schedule"}

complete(mode, params) ==
  [name \in ModeFields(mode) |->
     IF name \in DOMAIN params THEN params[name]
     ELSE IF name = "schedule" THEN <<>> ELSE 0]

\* parameter sets: any fields of the mode left out, the others with the
\* default or another value
FieldValues(name) ==
  CASE name = "targetBlockTime" -> {60, 600}
    [] name = "halfLife" -> {1000, 3600}
    [] name = "asymptote" -> {0, 500}
    [] name = "windowSize" -> {144, 5}
    [] name = "epochLength" -> {2016, 100}
    [] name = "maxAdjustment" -> {4, 2}
    [] name = "schedule" ->
         {<<[height |-> 0, difficulty |-> 1000 * NumberUnit]>>,
          <<[height |-> 0, difficulty |-> 1000 * NumberUnit],
            [height |-> 1000, difficulty |-> 500 * NumberUnit]>>,
          <<[height |-> 10, difficulty |-> 25 * NumberUnit],
            [height |-> 5, difficulty |-> 0]>>}

ParamSets(mode) ==
  IF mode = "schedule"
  THEN {EmptyParams} \cup {[schedule |-> s] : s \in FieldValues("schedule")}
  ELSE UNION {{p \in [names -> UNION {FieldValues(n) : n \in names}] :
                 \A n \in names : p[n] \in FieldValues(n)} :
                names \in SUBSET (ModeFields(mode) \cup {"targetBlockTime"})}

CodecInit ==
  /\ Idle
  /\ \E mode \in {"fixed", "epoch", "lwma", "asert", "schedule"} :
       \E p \in ParamSets(mode) : Calling("decodeDAAParams", <<mode, p>>)

CodecApply ==
  Returns("decodeDAAParams",
          decodeDAAParams(call.args[1],
                          encodeDAAParams(call.args[1], call.args[2])))

CodecSpec == CodecInit /\ [][CodecApply]_vars

\* ----------------------------------------------------------------- claims
\* C1: for every interleaving of candidate arrivals and broadcast replies,
\* at most one claim broadcast is awaiting its reply at any time.
C1_OneBroadcastInFlight == Len(inflight) <= 1

\* A candidate arrived while a broadcast was awaiting its reply and was
\* buffered rather than submitted.
C1_Witness == Len(inflight) = 1 /\ ~ready /\ Len(nonces) >= 1

\* C2: for every supported algorithm, every nonce handed to the claim
\* coordinator has passed the host verifier against the preimage and target
\* the loop is searching; a device result that fails is never forwarded.
C2_OnlyVerifiedForwarded == hist.unverified = 0

\* C3: once a stop has been requested of a running search loop the request
\* stays in force, so that the dispatch completing next leaves the loop and
\* sets the status to ready, whatever replies or updates come in between.
C3_StopHonoured == (hist.stopReq /\ LoopRunning) => miningStatus = "stop"


\* C4: when a broadcast succeeds for a claim built from a state at height h
\* with h + 1 < maxHeight, the contract in memory becomes that state with
\* location = (txid, output 0) and height = h + 1, all other fields as they
\* were, and the status becomes change.
C4_AcceptAdvancesContract ==
  [][(accepted' = accepted + 1 /\ inflight[1].outputs[1].script.kind = "dmint")
     => LET tx == inflight[1]
            next == tx.outputs[1].script
        IN /\ contract' = [contractRef |-> tx.input.ref,
                           location |-> Last(chain'[tx.input.ref]).id,
                           outputIndex |-> 0,
                           height |-> next.height,
                           maxHeight |-> next.maxHeight,
                           reward |-> next.reward,
                           target |-> next.target]
           /\ miningStatus' = "change"]_vars


\* C5: every submission that sets ready = false is eventually resolved;
\* its reply increments exactly one of accepted and rejected by one and
\* leaves the guard released or the next buffered nonce being broadcast; the
\* coordinator is never at ready = false with no broadcast outstanding.
C5_SubmissionResolved ==
  /\ [](~ready => Len(inflight) >= 1)
  /\ [][(inflight # <<>> /\ inflight' # inflight)
        => /\ accepted' + rejected' = accepted + rejected + 1
           /\ accepted' >= accepted /\ rejected' >= rejected
           /\ \/ ready' /\ inflight' = <<>>
              \/ /\ ~ready' /\ Len(inflight') = 1 /\ nonces # <<>>
                 /\ inflight'[1].k = Last(nonces).k]_vars
  /\ \A k \in 1 .. MaxFound :
       (inflight # <<>> /\ inflight[1].k = k)
         ~> (inflight = <<>> \/ inflight[1].k # k)

\* A broadcast was rejected and the next buffered nonce is on its way.
C5_Witness == rejected >= 1 /\ ~ready /\ Len(inflight) = 1


C7_ReloadOncePerStatus == ~hist.dup


\* A transaction with a burn output for the reference and no state output.
BurnOnly(tx, ref) ==
  /\ \E i \in 1 .. Len(tx.outputs) :
       tx.outputs[i].script.kind = "burn" /\ tx.outputs[i].script.ref = ref
  /\ \A i \in 1 .. Len(tx.outputs) : tx.outputs[i].script.kind # "dmint"

\* C8: when the subscription handler finds the contract's current location to
\* be a transaction with a burn output for the contract reference and no
\* state output, it sets the height in memory to maxHeight, sets the status
\* to stop and emits a minted-out notification.
C8_BurnHandled ==
  [][\A i \in 1 .. MaxHandlers :
       (/\ i <= Len(handlers)
        /\ handlers[i].pc = "fetchTx"
        /\ handlers' = RemoveAt(handlers, i)
        /\ BurnOnly(fetchTx(handlers[i].location), handlers[i].ref))
       => /\ contract'.height = contract.maxHeight
          /\ miningStatus' = "stop"
          /\ messages'["minted-out"] = messages["minted-out"] + 1]_vars


\* C9: after a burned contract or a low balance has been handled, and until
\* mining is started again, a search loop that still runs has the status
\* stop, which makes it leave and set ready, and with no search loop the
\* status is ready: it is never left at a value nothing will take to ready.
C9_HaltLeadsToReady ==
  hist.halted => IF LoopRunning THEN miningStatus = "stop"
                 ELSE miningStatus = "ready"


\* C10: every claim transaction has exactly four outputs in the order
\* state-or-burn, FT reward, message, change; output 0 is the contract state
\* with height + 1 when height + 1 < maxHeight and the burn output exactly
\* when height + 1 = maxHeight; each submitted candidate is broadcast once.
C10_FourOutputs ==
  /\ \A i \in 1 .. Len(inflight) :
       LET tx == inflight[i]
           cur == parseContractTx(fetchTx(tx.input), tx.input.ref).params
       IN /\ Len(tx.outputs) = 4
          /\ tx.outputs[1].script =
               (IF cur.height + 1 = cur.maxHeight
                THEN burnScript(cur.contractRef)
                ELSE dMintScript([cur EXCEPT !.height = @ + 1]))
          /\ tx.outputs[2].script.kind = "ft"
          /\ tx.outputs[3].script.kind = "msg"
          /\ tx.outputs[4].script.kind = "p2pkh"
  /\ hist.submits = hist.replies + Len(inflight)


\* C11: mining is never started while the wallet balance is below 0.01 coin
\* plus the reward (in coin units), and after every accepted mint a balance
\* below that same threshold stops the engine and emits a notification.
BelowGate(b, c) == b * 100 < Coin + 100 * c.reward

C11_BalanceGate ==
  [][/\ hist'.starts = hist.starts + 1 => ~BelowGate(balance, contract)
     /\ (accepted' = accepted + 1 /\ BelowGate(balance', contract'))
          => /\ miningStatus' = "stop"
             /\ messages'["low-balance"] = messages["low-balance"] + 1]_vars


\* C12: a broadcast refused with txn-mempool-conflict increments the
\* rejected counter and leaves the engine running; the third such refusal in
\* a row starts the full recovery, whose first step stops the engine.
C12_ConflictRecovery ==
  [][(rejected' = rejected + 1 /\ hist'.conflicts > hist.conflicts)
       => IF hist'.conflicts = 3
          THEN miningStatus' = "stop"
          ELSE miningStatus' = miningStatus]_vars


\* C13: for a contract whose algorithm is unsupported, algo 0x03
\* (Argon2id-Light) included, the engine refuses to mine: no search loop
\* runs on work of such an algorithm, and a loop that finds such a contract
\* when it takes up a change queues no further dispatch.
Refused(algorithm) == algorithm \notin {"sha256d", "blake3", "k12"}

C13_UnsupportedRefused ==
  [][\A l \in LoopIds :
       /\ loops'[l].pc # "off" => ~Refused(loops'[l].work.algorithm)
       /\ (/\ loops[l].pc = "dispatch"
           /\ miningStatus = "change"
           /\ miningStatus' \in {"mining", "ready"}
           /\ work # NoWork
           /\ Refused(work.algorithm))
          => loops'[l].pc # "dispatch"]_vars


\* C14: the selected algorithm is the registry's entry for the payload's
\* dmint.algo whenever that field is a number, whatever the contract-level
\* algorithm; otherwise the contract-level algorithm if present; otherwise
\* SHA-256d; a numeric id outside the registry selects SHA-256d.
RegistryIds == 0 .. 3

RegistryEntry(n) ==
  CASE n = 0 -> "sha256d" [] n = 1 -> "blake3" [] n = 2 -> "k12"
    [] n = 3 -> "argon2light"

C14_AlgorithmSelected ==
  Returned("getAlgorithm") =>
    LET algo == call.args[1]
        contractAlgorithm == call.args[2]
    IN call.result =
         IF algo.t = "number"
         THEN IF algo.v \in RegistryIds THEN RegistryEntry(algo.v)
              ELSE "sha256d"
         ELSE IF contractAlgorithm # NoAlgorithm THEN contractAlgorithm
              ELSE "sha256d"


\* C15: for BLAKE3 and K12 work a nonce is accepted exactly when the whole
\* hash, read as one big-endian integer, is below the target (Full256).
C15_Full256 ==
  Returned("check_target") =>
    (call.result <=> beValue(call.args[2]) < call.args[3])


\* C16: for every contract state with 0 <= height <= max_height < 2^32,
\* reward > 0 and target > 0, parsing the script produced by dMintScript
\* returns the same height, contract_ref, token_ref, max_height, reward and
\* target.
C16_RoundTrip ==
  Returned("dMintScript") =>
    LET c == call.args[1]
    IN call.result = [state |-> "active", height |-> c.height,
                      contractRef |-> c.contractRef, tokenRef |-> c.tokenRef,
                      maxHeight |-> c.maxHeight, reward |-> c.reward,
                      target |-> c.target]


\* C17: every contract state the parser returns as active satisfies
\* 0 <= height <= max_height, reward > 0 and target > 0.
Positive(n) == ~n.neg /\ n.mag # <<>>

C17_ParsedStateValid ==
  (Returned("parseContractTx") /\ call.result.state = "active") =>
    /\ ~call.result.height.neg
    /\ ~call.result.maxHeight.neg
    /\ magLeq(call.result.height.mag, call.result.maxHeight.mag)
    /\ Positive(call.result.reward)
    /\ Positive(call.result.target)


\* C18: at a height divisible by E the Epoch difficulty is
\* max(1, current * clamp(E * T_b * 10^6 / max(1, new_time -
\* epoch_start_time), 10^6 / M, 10^6 * M) / 10^6), the elapsed time being
\* measured from the start of the epoch also when the manager is fed block
\* by block; at any other height the difficulty is unchanged.
EpochFormula(current, elapsed) ==
  LET actual == IF elapsed < 1 THEN 1 ELSE elapsed
      adj == (EpochLength * TargetBlockTime * PRECISION) \div actual
      lo == PRECISION \div MaxAdjustment
      hi == PRECISION * MaxAdjustment
      clamped == IF adj < lo THEN lo ELSE IF adj > hi THEN hi ELSE adj
      next == (current * clamped) \div PRECISION
  IN IF next < 1 THEN 1 ELSE next

C18_EpochFromEpochStart ==
  [][(call.fn = "DAAManager" /\ call.mode = "epoch")
       => call'.state.currentDifficulty =
            IF call'.state.lastBlockHeight % EpochLength = 0
            THEN EpochFormula(call.state.currentDifficulty,
                              call'.state.lastBlockTime - call.epochStart)
            ELSE call.state.currentDifficulty]_vars


\* C19 (as stated): at an epoch boundary with expected < actual, the next
\* Epoch difficulty is strictly less than the current difficulty for every
\* current difficulty >= 1, unless the adjustment is clamped at current/M.
AtBoundary == call.args[2] % EpochLength = 0

EpochActual == call.args[3] - call.args[1].lastBlockTime

Slow == EpochLength * TargetBlockTime < EpochActual

EpochClamped ==
  (EpochLength * TargetBlockTime * PRECISION) \div EpochActual
    < PRECISION \div MaxAdjustment

C20_OnScheduleKeepsAnchor ==
  (call.fn = "DAAManager" /\ call.mode = "asert" /\ call.onSchedule)
    => call.state.currentDifficulty = call.anchor


\* C21 (as stated): in scenario S3 (difficulty 1000, half-life 3600, T_b 60,
\* anchor time 0, height advanced by 10, new block one hour or ten hours
\* late) the ASERT-lite exponent exceeds 4R and is clamped to +4R, the factor
\* is exactly fx_exp(4R), and the next difficulty is at least 1.
FourR == 4 * 2 ^ RBITS

S3 ==
  /\ call.fn = "asertCalculate"
  /\ call.args[1] = [halfLife |-> 3600, targetBlockTime |-> 60,
                     asymptote |-> 0]
  /\ call.args[2].currentDifficulty = 1000
  /\ call.args[3] = 10
  /\ call.args[4] \in {10 * 60 + 3600, 10 * 60 + 10 * 3600}

Exponent ==
  asertExponent(call.args[1], call.args[2], call.args[3], call.args[4])

Clamped(difficulty) ==
  LET next == mulShift(difficulty, fixedPointExp(FourR))
  IN IF next < 1 THEN 1 ELSE next

AllSlow(blockTimes, windowSize) ==
  \A i \in 1 .. Len(blockTimes) - 1 :
    i >= Len(blockTimes) - windowSize
      => blockTimes[i + 1] - blockTimes[i] >= 6 * TargetBlockTime

C22_SlowWindowThird ==
  (Returned("lwmaCalculate") /\ Len(call.args[2].blockTimes) >= 2
     /\ AllSlow(call.args[2].blockTimes, call.args[1].windowSize))
    => call.result = call.args[2].currentDifficulty \div 3


\* C23: the solve time of the newly arrived block (clamped to [1, 6 T_b]) is
\* part of the weighted mean used for that block's adjustment, so in S4
\* (difficulty 1000, window 5, T_b 60, history 0, 60, 120, 180, 240, new
\* block at 2400) the next difficulty is strictly below 1000 and within
\* [current / 3, current * 3].
S4 ==
  /\ call.fn = "DAAManager" /\ call.mode = "lwma"
  /\ call.state.currentDifficulty = 1000
  /\ call.state.blockTimes = <<0, 60, 120, 180, 240>>

C23_NewSolveTimeCounts ==
  [][(S4 /\ call'.state.lastBlockTime = 2400)
       => /\ call'.state.currentDifficulty < 1000
          /\ call'.state.currentDifficulty >= 1000 \div 3
          /\ call'.state.currentDifficulty <= 1000 * 3]_vars


\* C24: for a valid schedule and any non-decreasing sequence of heights, the
\* Schedule difficulties returned are non-decreasing if and only if the
\* schedule's difficulties are non-decreasing in height: a non-decreasing
\* schedule never returns less than before, and any other schedule does so
\* once the heights have run through all of it.
NonDecreasing(schedule) ==
  \A i \in 2 .. Len(schedule) :
    schedule[i - 1].difficulty <= schedule[i].difficulty

C24_ScheduleMonotone ==
  (call.fn = "scheduleCalculate" /\ scheduleValidateParams(call.params))
    => /\ NonDecreasing(call.params.schedule) => ~call.dropped
       /\ (call.swept /\ call.height > MaxScheduleHeight
              /\ ~NonDecreasing(call.params.schedule))
            => call.dropped


\* C25: for every DAA mode, every parameter set that passes that mode's
\* validation and every input with current difficulty >= 1, the returned
\* next difficulty is an integer >= 1.
C25_DifficultyAtLeastOne ==
  (call.fn = "calculateNextDifficulty" /\ call.done /\ call.valid)
    => ~call.threw /\ call.result >= 1


\* C26: for every DAA mode and every parameter set accepted by that mode's
\* validateParams, decodeDAAParams(mode, encodeDAAParams(mode, p)) equals p.
C26_ParamsRoundTrip ==
  (Returned("decodeDAAParams")
     /\ validateParams(call.args[1], complete(call.args[1], call.args[2])))
    => call.result = call.args[2]


\* ------------------------------------------------------------- client.tsx
\* Timer handles are positive numbers, and no handle is given out twice:
\* a new one is neither pending nor still held in a variable.
TimerIds == 1 .. 7

ConnectionTimeout == 10000
AutoStopDelay == 10000
ReconnectDelay == 10000
RotationDelay == 120000

setTimeout(n, kind, delay) ==
  LET used == {t.id : t \in n.timers}
                \cup {n.autoStopTimer, n.autoReconnectTimer, n.connectionTimer}
      id == CHOOSE i \in TimerIds : i \notin used /\
                                    \A j \in TimerIds \ used : i <= j
  IN [id |-> id, kind |-> kind, due |-> n.now + delay]

clearTimeout(timers, id) == {t \in timers : t.id # id}

startConnectionTimer(n) ==
  LET cleared == [n EXCEPT !.timers = clearTimeout(@, n.connectionTimer)]
      t == setTimeout(cleared, "connection", ConnectionTimeout)
  IN [cleared EXCEPT !.connectionTimer = t.id, !.timers = @ \cup {t}]

startAutoReconnectTimer(n) ==
  IF n.autoReconnectTimer = 0
  THEN LET allServersAttempted ==
             /\ n.connectAttemptCounter > 0
             /\ n.connectAttemptCounter % n.servers = 0
           t == setTimeout(n, "reconnect",
                           IF allServersAttempted THEN RotationDelay
                                                  ELSE ReconnectDelay)
       IN [n EXCEPT !.autoReconnectTimer = t.id, !.timers = @ \cup {t}]
  ELSE n

\* onClose; lostAt and failed are history: when the connection was last
\* reported failed or lost, and the servers that failed since the last
\* successful connection.
onClose(n, wasClean, enabled, server) ==
  LET n1 == [n EXCEPT
               !.timers = clearTimeout(clearTimeout(@, n.connectionTimer),
                                       n.autoReconnectTimer),
               !.connectionTimer = 0,
               !.autoReconnectTimer = 0,
               !.connectAttemptCounter = IF wasClean THEN @ ELSE @ + 1,
               !.serverStatus = "DISCONNECTED",
               !.lostAt = n.now,
               !.failed = IF wasClean THEN @ ELSE @ \cup {server}]
  IN IF enabled
     THEN IF n1.autoStopTimer = 0
          THEN LET t == setTimeout(n1, "autoStop", AutoStopDelay)
               IN [n1 EXCEPT !.autoStopTimer = t.id, !.timers = @ \cup {t}]
          ELSE n1
     ELSE startAutoReconnectTimer(n1)

\* connect(): the miner is stopped, a socket to servers[serverNum] is opened
\* and the connection timer started.
connect(n) ==
  LET closed == IF n.client # 0 /\ n.sockets[n.client].state = "open"
                THEN [n EXCEPT !.sockets[n.client].state = "closing"]
                ELSE n
      opened == [closed EXCEPT
                   !.sockets = Append(@, [server |-> n.serverNum,
                                          state |-> "connecting"]),
                   !.client = Len(n.sockets) + 1]
  IN [startConnectionTimer(opened) EXCEPT !.serverStatus = "CONNECTING"]

\* the "connected" handler
connected(n) ==
  [n EXCEPT !.connectAttemptCounter = 0,
            !.timers = clearTimeout(clearTimeout(clearTimeout(@,
                         n.connectionTimer), n.autoStopTimer),
                         n.autoReconnectTimer),
            !.connectionTimer = 0,
            !.serverStatus = "CONNECTED",
            !.autoStopTimer = 0,
            !.autoReconnectTimer = 0,
            !.failed = {}]

\* The status is ready whenever the client runs here, so that the stop that
\* connect awaits is resolved at once.
ClientStep(n, status, msgs) ==
  /\ net' = n
  /\ miningStatus' = status
  /\ messages' = msgs
  /\ UNCHANGED <<call, srvVars, contract, glyph, miningEnabled, balance, utxos,
                 accepted, rejected, found, nonces, ready, subscriptionStatus,
                 inflight, handlers, loads, loops, waiters, hist>>

\* initWallet connects once.
AppConnect ==
  /\ net.sockets = <<>>
  /\ ClientStep(connect(net), stop(miningStatus), messages)

SocketConnected(s) ==
  /\ s \in 1 .. Len(net.sockets)
  /\ net.sockets[s].state = "connecting"
  /\ ClientStep(connected([net EXCEPT !.sockets[s].state = "open"]),
                miningStatus, addMessage(messages, "general"))

\* The close event of a socket: a socket that was closed by the client, or
\* by the server in good order, closes clean.
SocketClose(s, wasClean) ==
  /\ s \in 1 .. Len(net.sockets)
  /\ \/ net.sockets[s].state = "connecting" /\ ~wasClean
     \/ net.sockets[s].state = "open"
     \/ net.sockets[s].state = "closing" /\ wasClean
  /\ ClientStep(onClose([net EXCEPT !.sockets[s].state = "closed"], wasClean,
                        miningEnabled, net.sockets[s].server),
                miningStatus,
                IF wasClean THEN messages ELSE addMessage(messages, "general"))

Due == {t \in net.timers : t.due <= net.now}

ConnectionTimedOut ==
  \E t \in Due :
    /\ t.kind = "connection"
    /\ ClientStep(onClose([net EXCEPT !.timers = @ \ {t}], FALSE,
                          miningEnabled, net.sockets[net.client].server),
                  miningStatus, addMessage(messages, "general"))

AutoStop ==
  \E t \in Due :
    /\ t.kind = "autoStop"
    /\ ClientStep(startAutoReconnectTimer([net EXCEPT !.timers = @ \ {t}]),
                  stop(miningStatus), addMessage(messages, "stop"))

Reconnect ==
  \E t \in Due :
    /\ t.kind = "reconnect"
    /\ Len(net.sockets) < MaxSockets
    /\ ClientStep(connect([net EXCEPT
                             !.timers = @ \ {t},
                             !.serverNum = (@ + 1) % net.servers]),
                  stop(miningStatus), messages)

\* Time passes once every timer that is due has run.
Advance ==
  /\ Due = {}
  /\ net.now < MaxTime
  /\ ClientStep([net EXCEPT !.now = @ + Tick], miningStatus, messages)

\* The miner when the client starts: idle, or enabled by the user on token A
\* with no loop running (token A was loaded, mining started, and the loop
\* left after A was picked again).
ClientMiner(enabled) ==
  /\ chain = [r \in Refs |-> <<RevealTx(r, IF r = "B" THEN NumberAlgo(1)
                                                    ELSE NoAlgo)>>]
  /\ srvUnspent = {Funding(InitBalance)}
  /\ subQueue = <<>>
  /\ subscribed = IF enabled THEN {"A"} ELSE {}
  /\ contract = IF enabled THEN fetchToken("A") ELSE NoContract
  /\ glyph = IF enabled THEN "A" ELSE "none"
  /\ miningStatus = "ready"
  /\ miningEnabled = enabled
  /\ balance = InitBalance
  /\ utxos = <<Funding(InitBalance)>>
  /\ accepted = 0
  /\ rejected = 0
  /\ found = 0
  /\ messages = [t \in MsgTypes |->
                   IF ~enabled THEN 0
                   ELSE CASE t = "loaded" -> 2
                          [] t \in {"start", "stop"} -> 1
                          [] OTHER -> 0]
  /\ nonces = <<>>
  /\ ready = TRUE
  /\ subscriptionStatus = IF enabled THEN StatusOf("A") ELSE NoStatus
  /\ inflight = <<>>
  /\ handlers = <<>>
  /\ loads = <<>>
  /\ loops = [l \in LoopIds |-> NoLoop]
  /\ waiters = 0
  /\ hist = [loads |-> IF enabled THEN 2 ELSE 0,
             starts |-> IF enabled THEN 1 ELSE 0,
             mints |-> 0, redelivered |-> 0,
             unverified |-> 0, submits |-> 0, replies |-> 0, maxK |-> 0,
             stopReq |-> FALSE, reloaded |-> {}, dup |-> FALSE,
             halted |-> FALSE, conflicts |-> 0]

ClientInit ==
  /\ call = NoCall
  /\ \E enabled \in BOOLEAN : ClientMiner(enabled)
  /\ \E k \in 1 .. MaxServers :
       net = [servers |-> k, serverNum |-> 0, connectAttemptCounter |-> 0,
              autoStopTimer |-> 0, autoReconnectTimer |-> 0,
              connectionTimer |-> 0, serverStatus |-> "DISCONNECTED",
              client |-> 0, sockets |-> <<>>, timers |-> {}, now |-> 0,
              lostAt |-> 0, failed |-> {}]

ClientNext ==
  \/ AppConnect
  \/ \E s \in 1 .. MaxSockets : SocketConnected(s)
  \/ \E s \in 1 .. MaxSockets, wasClean \in BOOLEAN : SocketClose(s, wasClean)
  \/ ConnectionTimedOut
  \/ AutoStop
  \/ Reconnect
  \/ Advance

ClientSpec == ClientInit /\ [][ClientNext]_vars


\* ---------------------------------------------------------------- C27
ReconnectPending == {t \in net.timers : t.kind = "reconnect"}

\* a step of the reconnect callback: a socket is opened after the first one
Reconnecting ==
  /\ net.sockets # <<>>
  /\ Len(net'.sockets) > Len(net.sockets)

AllTried == net.failed = 0 .. net.servers - 1

Scheduled == \E t \in net.timers : t.kind \in {"reconnect", "autoStop"}

\* C27: at most one reconnect timer is pending; a reconnection goes to the
\* next server of the list, 10 s after the connection failed or was lost, or
\* 120 s after it when every server of the list has failed since the last
\* successful connection; and while the client is disconnected after a
\* failure the next attempt is scheduled.
C27_BackOff ==
  /\ [](Cardinality(ReconnectPending) <= 1)
  /\ [][Reconnecting =>
          /\ net'.serverNum = (net.serverNum + 1) % net.servers
          /\ net.now - net.lostAt = IF AllTried THEN RotationDelay
                                                ELSE ReconnectDelay]_vars
  /\ [](net.serverStatus = "DISCONNECTED" /\ net.sockets # <<>> => Scheduled)


\* ---------------------------------------------------------------- C28
\* Two SHA256d tokens of different targets.
EasyTarget == 2

WorkInit ==
  /\ call = NoCall
  /\ InitOf(InitBalance, NoAlgo, EasyTarget)

WorkSpec == WorkInit /\ [][Next]_vars

\* the loop takes up a change of work and goes on
ChangeProcessed(l) ==
  /\ loops[l].pc = "dispatch"
  /\ miningStatus = "change"
  /\ miningStatus' = "mining"
  /\ loops'[l].pc = "dispatch"

\* C28: when the loop has processed a change, the midstate and preimage it
\* dispatches with and the target it dispatches and verifies with are those
\* of the Work it re-read; the loop keeps them until the next change, so
\* they are what every later dispatch and verification uses.
C28_ChangeTakesCurrentWork ==
  [][\A l \in LoopIds :
       ChangeProcessed(l) =>
         /\ loops'[l].midstate = powMidstate(work)
         /\ loops'[l].work.target = work.target]_vars


\* ------------------------------------------------- miner.ts nonce schedule
\* The locals of start() that place a dispatch in the nonce space, with the
\* status the loop reads.  History: at is the pair the latest dispatch of
\* this work configuration started at (<<>> before the first), searched the
\* pairs the dispatches of this configuration started at, last the latest
\* candidate of this configuration handed to the verifier.
maxNonce(numInvocations) == (NonceSpace - 1) - numInvocations

NoPair == <<>>

ScheduleOf(v2, numInvocations, nonce1) ==
  [fn |-> "start", v2 |-> v2, numInvocations |-> numInvocations,
   nonce1 |-> nonce1, nonceStart |-> 0, status |-> "mining",
   at |-> NoPair, searched |-> {}, last |-> NoPair, candidate |-> NoPair]

\* nonce1 is Math.round(Math.random() * 0xffffffff); the v2 shaders take the
\* high half from the dispatch's y, which is 0.
NonceInit ==
  /\ Idle
  /\ \E v2 \in BOOLEAN, numInvocations \in 2 .. MaxInvocations :
       \E nonce1 \in IF v2 THEN {0} ELSE 0 .. NonceSpace - 1 :
         call = ScheduleOf(v2, numInvocations, nonce1)

\* One turn of the loop: the nonce space is restarted when it is exhausted,
\* the dispatch runs, its first result (an invocation of the dispatch) is
\* read and handed on, nonceStart advances, and a change of work is taken up.
Dispatch(result) ==
  /\ call.fn = "start"
  /\ call.status \in {"mining", "change"}
  /\ LET exhausted == call.nonceStart > maxNonce(call.numInvocations)
         nonceStart == IF exhausted THEN 0 ELSE call.nonceStart
         nonce1 == IF exhausted /\ ~call.v2
                   THEN IF call.nonce1 + 1 > NonceSpace - 1 THEN 0
                        ELSE call.nonce1 + 1
                   ELSE call.nonce1
         at == <<nonce1, nonceStart>>
         candidate == IF result = NoResult THEN NoPair
                      ELSE <<nonce1, nonceStart + result>>
         changing == call.status = "change"
     IN call' = [call EXCEPT
                   !.nonce1 = nonce1,
                   !.nonceStart = nonceStart + call.numInvocations,
                   !.status = IF changing THEN "mining" ELSE @,
                   !.candidate = candidate,
                   !.at = IF changing THEN NoPair ELSE at,
                   !.searched = IF changing THEN {} ELSE @ \cup {at},
                   !.last = IF changing THEN NoPair
                            ELSE IF candidate = NoPair THEN @ ELSE candidate]
  /\ UNCHANGED <<minerVars, net>>

\* The contract moved: the subscription or an accepted claim asks for a
\* change of work.
WorkMoved ==
  /\ call.fn = "start"
  /\ call.status = "mining"
  /\ call' = [call EXCEPT !.status = "change"]
  /\ UNCHANGED <<minerVars, net>>

\* miner.stop, and the loop leaving
StopAsked ==
  /\ call.fn = "start"
  /\ call.status \in {"mining", "change"}
  /\ call' = [call EXCEPT !.status = "stop"]
  /\ UNCHANGED <<minerVars, net>>

LoopLeft ==
  /\ call.fn = "start"
  /\ call.status = "stop"
  /\ call' = [call EXCEPT !.status = "ready"]
  /\ UNCHANGED <<minerVars, net>>

NonceNext ==
  \/ \E result \in (0 .. MaxInvocations - 1) \cup {NoResult} :
       /\ result < call.numInvocations
       /\ Dispatch(result)
  \/ WorkMoved
  \/ StopAsked
  \/ LoopLeft

NonceSpec == NonceInit /\ [][NonceNext]_vars

\* ---------------------------------------------------------------- C29
\* (hi, lo) pairs in their order
Before(p, q) == p[1] < q[1] \/ (p[1] = q[1] /\ p[2] < q[2])

\* a dispatch that goes on in the work configuration of the one before it
NextDispatch ==
  /\ call.at # NoPair
  /\ call'.at # NoPair
  /\ call'.nonceStart # call.nonceStart

\* C29: within one work configuration each dispatch starts W*S above the
\* one before, or at (nonce_hi + 1, 0) when the nonce_lo space is exhausted;
\* it starts at no pair an earlier dispatch started at, and a candidate
\* handed to the verifier is above the candidate handed to it before.
C29_NoncesIncrease ==
  [][NextDispatch =>
       /\ \/ call'.at = <<call.at[1], call.at[2] + call.numInvocations>>
          \/ call'.at = <<call.at[1] + 1, 0>>
       /\ call'.at \notin call.searched
       /\ (call.last # NoPair /\ call'.candidate # NoPair
             => Before(call.last, call'.candidate))]_vars


\* ---------------------------------------- broadcast and reply, separately
\* SubmitAccepted is the gateway taking the transaction and the client
\* receiving the txid in one step.  Here the two are apart, so that the
\* subscription may report the mint in between: call holds the txids the
\* gateway has answered with and the client has not received yet, by the
\* number of the candidate.
NoReplies == [fn |-> "broadcast", replies |-> {}]

Answered(i) ==
  /\ i \in 1 .. Len(inflight)
  /\ \E r \in call.replies : r.k = inflight[i].k

\* The gateway accepts inflight[i]: the transaction is on the chain and the
\* subscribers of the contract are notified.
BroadcastTaken(i) ==
  /\ call.fn = "broadcast"
  /\ i \in 1 .. Len(inflight)
  /\ ~Answered(i)
  /\ LET tx == inflight[i]
         ref == tx.input.ref
         txid == [ref |-> ref, by |-> "me", h |-> Len(chain[ref])]
         changeOutputIndex == Len(tx.outputs) - 1
         funds == {tx.funding[j] : j \in 1 .. Len(tx.funding)}
         change == IF tx.outputs[changeOutputIndex + 1].script.kind = "p2pkh"
                   THEN {[tx |-> txid, pos |-> changeOutputIndex,
                          value |-> tx.outputs[changeOutputIndex + 1].satoshis]}
                   ELSE {}
     IN /\ ChainAccepts(tx)
        /\ chain' = [chain EXCEPT ![ref] = Append(@, [id |-> txid,
                                                      outputs |-> tx.outputs])]
        /\ srvUnspent' = (srvUnspent \ funds) \cup change
        /\ subQueue' = Notify(ref, subQueue)
        /\ call' = [call EXCEPT !.replies = @ \cup {[k |-> tx.k, txid |-> txid]}]
  /\ UNCHANGED <<net, subscribed, contract, glyph, miningStatus, miningEnabled,
                 balance, utxos, accepted, rejected, found, messages, nonces,
                 ready, subscriptionStatus, inflight, handlers, loads, loops,
                 waiters, hist>>

\* The txid arrives: claimTokens records the change output and returns,
\* submit runs its accept branch.
ReplyReceived(i) ==
  /\ call.fn = "broadcast"
  /\ i \in 1 .. Len(inflight)
  /\ Answered(i)
  /\ LET tx == inflight[i]
         reply == CHOOSE r \in call.replies : r.k = tx.k
         txid == reply.txid
         changeOutputIndex == Len(tx.outputs) - 1
         newBalance == tx.outputs[changeOutputIndex + 1].satoshis
         height == contract.height + 1
         status1 == IF height = contract.maxHeight THEN "stop" ELSE "change"
         low == lowBalance(newBalance)
     IN /\ call' = [call EXCEPT !.replies = @ \ {reply}]
        /\ utxos' = <<[tx |-> txid, pos |-> changeOutputIndex,
                       value |-> newBalance]>>
        /\ balance' = newBalance
        /\ accepted' = accepted + 1
        /\ nonces' = <<>>
        /\ ready' = TRUE
        /\ inflight' = RemoveAt(inflight, i)
        /\ contract' = IF height = contract.maxHeight THEN contract
                       ELSE [contract EXCEPT !.height = height,
                                             !.location = txid,
                                             !.outputIndex = 0]
        /\ miningStatus' = IF low THEN stop(status1) ELSE status1
        /\ messages' = LET m1 == addMessage(messages, "accept")
                       IN IF low
                          THEN addMessage(addMessage(m1, "low-balance"), "stop")
                          ELSE m1
        /\ hist' = StopRequested([hist EXCEPT !.replies = @ + 1,
                                              !.halted = @ \/ low,
                                              !.conflicts = 0],
                                 IF low THEN stop(status1) ELSE status1)
  /\ UNCHANGED <<net, srvVars, subscribed, glyph, miningEnabled, rejected,
                 found, subscriptionStatus, handlers, loads, loops, waiters>>

EchoInit == Idle /\ call = NoReplies

\* The miner with the gateway and the subscription: tokens are picked from
\* the token list, no other miner mints and the user does not stop.

EchoNext ==
  \/ \E i \in 1 .. MaxFound + 1 : BroadcastTaken(i)
  \/ \E i \in 1 .. MaxFound + 1 : ReplyReceived(i)
  \/ \E i \in 1 .. MaxFound + 1 : ~Answered(i) /\ SubmitRejected(i)
  \/ \E l \in LoopIds : Start(l)
  \/ \E l \in LoopIds : LoopEnter(l)
  \/ \E l \in LoopIds, result \in Nonces \cup {NoResult} : DispatchDone(l, result)
  \/ \E ref \in Refs : ChangeToken(ref, "list")
  \/ \E i \in 1 .. MaxLoads : ChangeTokenLoaded(i)
  \/ StatusReceived
  \/ \E i \in 1 .. MaxHandlers : HandlerFetchedRef(i)
  \/ \E i \in 1 .. MaxHandlers : HandlerFetchedTx(i)

EchoSpec == EchoInit /\ [][EchoNext]_vars

\* ---------------------------------------------------------------- C30
\* the callback of the loaded contract's subscription finishes on the
\* transaction of our own mint
OwnMintHandled ==
  \E i \in 1 .. Len(handlers) :
    /\ handlers[i].pc = "fetchTx"
    /\ handlers[i].location.by = "me"
    /\ handlers[i].ref = contract.contractRef
    /\ handlers' = RemoveAt(handlers, i)

\* C30: when the subscription of the loaded contract reports the transaction
\* of our own accepted mint, before or after the broadcast was answered, no
\* new-location message is added and the contract is not loaded from it.
C30_OwnMintNotReloaded ==
  [][OwnMintHandled =>
       /\ messages'["new-location"] = messages["new-location"]
       /\ contract' = contract]_vars


\* ---------------------------------------------------------------- C31
\* a target of 64 bits (two words)
Is64BitTarget(target) == target < WordBase * WordBase

\* C31: for every hash and every 64-bit target the BLAKE3 shader's
\* check_target (word 0 zero, then the byte-swapped words 1 and 2 against
\* the target's high and low word) accepts exactly when the host's verify
\* does (bytes 0..3 zero, big-endian bytes 4..11 below the target).
C31_DeviceMatchesHost ==
  (Returned("check_target") /\ call.args[1] = "blake3"
     /\ Is64BitTarget(call.args[3]))
    => (call.result <=> verifyHash(call.args[3], call.args[2]))

\* An accepted hash whose word 1 reads differently once byte-swapped.
C31_Witness ==
  /\ Returned("check_target")
  /\ call.args[1] = "blake3"
  /\ Is64BitTarget(call.args[3])
  /\ call.result
  /\ hashWord(call.args[2], 2) # bswap32(hashWord(call.args[2], 2))


\* ------------------------------------------------- the manager's histories
\* An LWMA manager (the mode that keeps histories) that lives long enough
\* to fill them: SteadyBlocks blocks come on schedule, LateBlocks more at
\* any pace.  times and difficulties are every block time and difficulty
\* that arrived, the initial ones included.
HistoryInit ==
  /\ Idle
  /\ \E d \in {3, 1000} :
       call = [fn |-> "history", state |-> lwmaInitializeState(d, 0, 0),
               times |-> <<0>>, difficulties |-> <<d>>]

HistoryBlock(solveTime) ==
  /\ call.fn = "history"
  /\ call.state.lastBlockHeight < SteadyBlocks + LateBlocks
  /\ call.state.lastBlockHeight < SteadyBlocks => solveTime = TargetBlockTime
  /\ LET next == managerNext("lwma", call.state,
                             call.state.lastBlockHeight + 1,
                             call.state.lastBlockTime + solveTime)
     IN call' = [call EXCEPT
                   !.state = next,
                   !.times = Append(@, next.lastBlockTime),
                   !.difficulties = Append(@, next.currentDifficulty)]
  /\ UNCHANGED <<minerVars, net>>

HistoryNext == \E solveTime \in LwmaSolveTimes : HistoryBlock(solveTime)

HistorySpec == HistoryInit /\ [][HistoryNext]_vars

\* ---------------------------------------------------------------- C32
\* the last n entries of s, or all of s when it is shorter
Recent(s, n) == IF Len(s) > n THEN SubSeq(s, Len(s) - n + 1, Len(s)) ELSE s

\* C32: after any number of blocks the stored block-time and difficulty
\* histories hold at most 1000 entries each, and they are the most recent
\* block times and difficulties in the order they arrived.
C32_HistoriesBounded ==
  call.fn = "history" =>
    /\ Len(call.state.blockTimes) <= 1000
    /\ Len(call.state.difficulties) <= 1000
    /\ call.state.blockTimes = Recent(call.times, 1000)
    /\ call.state.difficulties = Recent(call.difficulties, 1000)

\* More than 1000 blocks arrived, and the last ones were not on schedule.
C32_Witness ==
  /\ call.fn = "history"
  /\ Len(call.times) > 1002
  /\ call.state.blockTimes[1] # call.times[1]
  /\ call.state.currentDifficulty # call.difficulties[1]


\* ---------------------------------------------------------------- C33
\* the claims whose broadcast begins in this step
Begun == {i \in 1 .. Len(inflight') :
            \A j \in 1 .. Len(inflight) : inflight[j].k # inflight'[i].k}

\* the preimages candidate k can have been found for: that of the buffered
\* nonce, or those of the dispatching loops when the candidate is found in
\* this step
FoundFor(k) ==
  IF \E i \in 1 .. Len(nonces) : nonces[i].k = k
  THEN {nonces[i].pre : i \in {j \in 1 .. Len(nonces) : nonces[j].k = k}}
  ELSE {loops[l].midstate : l \in {j \in LoopIds : loops[j].pc = "dispatch"}}

\* C33: the nonce of every claim transaction was found for the Work the
\* claim is built from: the location the claim spends and the contract it
\* is for are those of the preimage that was searched.
C33_NonceOfSameWork ==
  [][\A i \in Begun :
       \E pre \in FoundFor(inflight'[i].k) :
         /\ pre.txid = inflight'[i].input
         /\ pre.contractRef = inflight'[i].input.ref]_vars



\* ---------------------------------------------------------------- C34
\* the height the chain holds in the contract output of a transaction
ChainHeight(txid) == parseContractTx(fetchTx(txid), txid.ref).params.height

\* C34: whatever the order of the broadcast's reply and the subscription
\* updates, the height of the loaded contract never exceeds its maxHeight,
\* and while the contract is not minted out it is the height the chain
\* holds at the loaded location (a location of the loaded contract).
C34_HeightOfLocation ==
  (contract.contractRef # "none"
     /\ contract.location.ref = contract.contractRef) =>
    /\ contract.height <= contract.maxHeight
    /\ contract.height < contract.maxHeight
         => contract.height = ChainHeight(contract.location)



\* ---------------------------------------------------------------- C35
\* the callback of a subscription made for a contract that is no longer
\* the loaded one finishes
StaleHandled ==
  \E i \in 1 .. Len(handlers) :
    /\ handlers[i].pc = "fetchTx"
    /\ contract.contractRef # "none"
    /\ handlers[i].ref # contract.contractRef
    /\ handlers' = RemoveAt(handlers, i)

\* C35: once another contract is loaded, a status notification for the
\* singleton of the contract loaded before changes neither the loaded
\* contract nor the miner status nor the messages.
C35_OldSubscriptionSilent ==
  [][StaleHandled =>
       /\ contract' = contract
       /\ miningStatus' = miningStatus
       /\ messages' = messages]_vars



\* ------------------------------------------------ the miner, left to run
\* One turn of a search loop: the GPU work of a dispatch always completes.
LoopStep ==
  \E l \in LoopIds :
    \/ LoopEnter(l)
    \/ \E result \in Nonces \cup {NoResult} : DispatchDone(l, result)

\* The user may stop acting at any point; the gateway answers every
\* broadcast, a running loop always takes its next turn, and the 100 ms
\* interval of miner.stop always polls again.
StopFairSpec ==
  /\ Init
  /\ [][CoordNext]_vars
  /\ WF_vars(BroadcastReply)
  /\ WF_vars(LoopStep)
  /\ WF_vars(StopResolved)

\* ---------------------------------------------------------------- C36
\* C36: every miner.stop() that stopMining awaits resolves in the end, with
\* the status then ready, whether or not a search loop was running when it
\* was called.
C36_StopResolves == (waiters > 0) ~> (waiters = 0 /\ miningStatus = "ready")



\* ---------------------------------------------------------------- C37
\* the search loops that are dispatching
Dispatching == {l \in LoopIds : loops[l].pc = "dispatch"}

\* C37: at most one search loop dispatches and forwards nonces at any time,
\* also when start is pressed while an earlier loop has been asked to stop
\* and has not left yet.
C37_OneLoop == Cardinality(Dispatching) <= 1



\* ------------------------------------------------- the client, left to run
\* Timers that are due run and time goes on; nothing is assumed of the
\* servers, which may never answer.
ClientFairSpec ==
  /\ ClientInit
  /\ [][ClientNext]_vars
  /\ WF_vars(ConnectionTimedOut)
  /\ WF_vars(AutoStop)
  /\ WF_vars(Reconnect)
  /\ WF_vars(Advance)

\* ---------------------------------------------------------------- C38
\* the connection was closed, or an attempt timed out
Lost == net.sockets # <<>> /\ net.serverStatus = "DISCONNECTED"

\* the run has come to the end of its sockets, or of its time with a timer
\* still to come
RunEnded ==
  \/ Len(net.sockets) = MaxSockets
  \/ net.now >= MaxTime /\ net.timers # {}

\* C38: after every close and every connection time-out, with mining
\* enabled or not, connect is called again in the end.
C38_ReconnectsInTheEnd ==
  Lost ~> (net.serverStatus # "DISCONNECTED" \/ RunEnded)



\* ------------------------------------------------- the wallet subscription
\* The miner with the gateway and the subscription of the wallet address.
\* call holds, besides the txids on their way to claimTokens, the address
\* status the callback of subscribeToAddress saw last (the unspent set
\* stands for the status, which changes with every transaction of the
\* address) and the answers to blockchain.scripthash.listunspent on their
\* way to updateUnspent.  Answers carry the id of their request and are
\* delivered in any order.
RECURSIVE listunspent(_)
listunspent(unspent) ==
  IF unspent = {} THEN <<>>
  ELSE LET u == CHOOSE x \in unspent : TRUE
       IN <<u>> \o listunspent(unspent \ {u})

WalletInit ==
  /\ Idle
  /\ call = [fn |-> "broadcast", replies |-> {},
             subscriptionStatus |-> srvUnspent, responses |-> {}]

\* The callback of the address subscription sees a new status and calls
\* updateUnspent, whose request the gateway answers.
AddressStatus ==
  /\ call.fn = "broadcast"
  /\ call.subscriptionStatus # srvUnspent
  /\ call' = [call EXCEPT !.subscriptionStatus = srvUnspent,
                          !.responses = @ \cup {listunspent(srvUnspent)}]
  /\ UNCHANGED <<minerVars, net>>

\* updateUnspent after its await: an answer has arrived
updateUnspent ==
  /\ call.fn = "broadcast"
  /\ \E response \in call.responses :
       /\ call' = [call EXCEPT !.responses = @ \ {response}]
       /\ balance' = SumValues(response)
       /\ utxos' = response
  /\ UNCHANGED <<net, srvVars, contract, glyph, miningStatus, miningEnabled,
                 accepted, rejected, found, messages, nonces, ready,
                 subscriptionStatus, inflight, handlers, loads, loops,
                 waiters, hist>>

WalletNext ==
  \/ \E i \in 1 .. MaxFound + 1 : BroadcastTaken(i)
  \/ \E i \in 1 .. MaxFound + 1 : ReplyReceived(i)
  \/ \E i \in 1 .. MaxFound + 1 : ~Answered(i) /\ SubmitRejected(i)
  \/ \E l \in LoopIds : Start(l)
  \/ \E l \in LoopIds : LoopEnter(l)
  \/ \E l \in LoopIds, result \in Nonces \cup {NoResult} : DispatchDone(l, result)
  \/ \E ref \in Refs : ChangeToken(ref, "list")
  \/ \E i \in 1 .. MaxLoads : ChangeTokenLoaded(i)
  \/ AddressStatus
  \/ updateUnspent

WalletSpec == WalletInit /\ [][WalletNext]_vars

\* ---------------------------------------------------------------- C39
\* the outputs the wallet address ever held: its funding and the change of
\* the claims on the chain
WalletOutputs ==
  {Funding(InitBalance)} \cup
    {[tx |-> chain[ref][h].id, pos |-> i - 1,
      value |-> chain[ref][h].outputs[i].satoshis] :
       <<ref, h, i>> \in
         {x \in Refs \X (1 .. MaxHeight + 1) \X (1 .. 4) :
            /\ x[2] <= Len(chain[x[1]])
            /\ x[3] <= Len(chain[x[1]][x[2]].outputs)
            /\ chain[x[1]][x[2]].outputs[x[3]].script.kind = "p2pkh"}}

Spent == WalletOutputs \ srvUnspent

\* C39: once every accepted broadcast has been answered, the UTXO list that
\* funds the next claim holds no output that an accepted claim has spent.
C39_NoSpentFunding ==
  (call.fn = "broadcast" /\ call.replies = {}) =>
    \A i \in 1 .. Len(utxos) : utxos[i] \notin Spent



\* ------------------------------------------- ASERTDAA.fixedPointExp alone
\* fixedPointExp on two exponents of its unclamped range [-4R, 4R]: every
\* ExpStep-th exponent and its successor, and the exponents next to -R - 512
ExpStep == 4096

Exponents ==
  {k * ExpStep + d : k \in -64 .. 63, d \in {0, 1}}
    \cup {4 * 2 ^ RBITS} \cup (-66050 .. -66046)

ExpInit ==
  /\ Idle
  /\ \E lower \in Exponents, higher \in Exponents :
       /\ lower <= higher
       /\ Calling("fixedPointExp", <<lower, higher>>)

ExpApply ==
  Returns("fixedPointExp",
          <<fixedPointExp(call.args[1]), fixedPointExp(call.args[2])>>)

ExpSpec == ExpInit /\ [][ExpApply]_vars

\* ---------------------------------------------------------------- C40
\* C40: for exponents in [-4R, 4R] the factor fixedPointExp gives is
\* strictly positive, and that of the higher exponent is not below that of
\* the lower one.
C40_FactorPositiveMonotone ==
  Returned("fixedPointExp") =>
    /\ call.result[1] > 0
    /\ call.result[2] > 0
    /\ call.result[1] <= call.result[2]

====
